---- MODULE Spec2Model ----
(***************************************************************************)
(* Model of operator-controller's CRD upgrade-safety preflight             *)
(* (crdupgradesafety.Preflight and its crossVersionValidator), of the      *)
(* Helm applier that runs the preflights before it changes the cluster,    *)
(* of the content manager that keeps one cache per extension, and of the   *)
(* resolver that picks the bundle to install.                              *)
(*                                                                         *)
(* Under Spec every behaviour is one call: Init draws the operation and    *)
(* its inputs, the operation's action runs the whole handler and records   *)
(* what it returned together with the calls it made on its collaborators.  *)
(* SpecResolver does the same for the resolver.  SpecConcurrent            *)
(* interleaves two Upgrade calls on one Preflight, and SpecContent is any  *)
(* sequence of calls on one content manager.                               *)
(***************************************************************************)
EXTENDS Integers, Sequences, FiniteSets, TLC

VARIABLES
    p,      \* the Preflight object built by NewPreflight
    call,   \* the pending call: the operation and its arguments
    result, \* NoResult until the call has returned, then what it returned
    cm      \* the content manager instance built by New

vars == <<p, call, result, cm>>

(***************************************************************************)
(* Bounds of the model.                                                    *)
(***************************************************************************)
MaxVersions == 3
MaxOverrides == 2
MaxPreflights == 2
MaxSchemaVersions == 2
MaxObjects == 2
MaxConcurrentObjects == 2
MaxSchemeObjects == 2
MaxCaches == 3
MaxBundles == 2

Names == {"v1", "v2", "v3"}
Fields == {"x", "y"}

Nil == "nil"
NoResult == [op |-> "none"]

(***************************************************************************)
(* Small helpers over sequences and sets.                                  *)
(***************************************************************************)
SeqsUpTo(S, n) == UNION {[1..k -> S] : k \in 0..n}

Range(s) == {s[i] : i \in DOMAIN s}

RECURSIVE Flat(_)
Flat(ss) == IF ss = <<>> THEN <<>> ELSE Head(ss) \o Flat(Tail(ss))

SubsetsUpTo(S, n) == {T \in SUBSET S : Cardinality(T) <= n}

DistinctPairs(S) == {pr \in S \X S : pr[1] # pr[2]}

\* the names of the versions a definition declares
VersionNames(crd) == {crd.Versions[i].Name : i \in DOMAIN crd.Versions}

(***************************************************************************)
(* errors.Join: nil when there is nothing to join, else one error that     *)
(* wraps every given error in order.                                       *)
(***************************************************************************)
NoError == [isNil |-> TRUE, joined |-> <<>>]

\* a join that wraps whatever it is given, an empty list included
Join_AlwaysWraps(errs) == [isNil |-> FALSE, joined |-> errs]

\* errors.Join: nil when there is no error to join
Join(errs) == IF errs = <<>> THEN NoError ELSE [isNil |-> FALSE, joined |-> errs]

(***************************************************************************)
(* NewPreflight: the rule list of the cross-version validator, in the      *)
(* order the constructor declares it.                                      *)
(***************************************************************************)
ChangeValidationList ==
    << "EnumChangeValidation",
       "RequiredFieldChangeValidation",
       "MaximumChangeValidation",
       "MaximumItemsChangeValidation",
       "MaximumLengthChangeValidation",
       "MaximumPropertiesChangeValidation",
       "MinimumChangeValidation",
       "MinimumItemsChangeValidation",
       "MinimumLengthChangeValidation",
       "MinimumPropertiesChangeValidation",
       "DefaultValueChangeValidation" >>

\* a constructor that leaves the scope rule out of the validator
NewPreflight_WithoutNoScopeChange ==
    [ validator |-> [ Validations |-> << "NoStoredVersionRemoved",
                                         "NoExistingFieldRemoved",
                                         "ChangeValidator" >>,
                      ChangeValidations |-> ChangeValidationList ],
      crossVersionValidator |-> [ changeValidations |-> ChangeValidationList ] ]

\* a constructor that leaves the enum rule out of the validator's change rules
NewPreflight_WithoutEnumRule ==
    [ validator |-> [ Validations |-> << "NoScopeChange",
                                         "NoStoredVersionRemoved",
                                         "NoExistingFieldRemoved",
                                         "ChangeValidator" >>,
                      ChangeValidations |-> Tail(ChangeValidationList) ],
      crossVersionValidator |-> [ changeValidations |-> ChangeValidationList ] ]

\* a constructor that gives the validator the lower-bound rules only where
\* the upper-bound rules belong
NewPreflight_WithoutUpperBoundRules ==
    [ validator |-> [ Validations |-> << "NoScopeChange",
                                         "NoStoredVersionRemoved",
                                         "NoExistingFieldRemoved",
                                         "ChangeValidator" >>,
                      ChangeValidations |->
                        SelectSeq(ChangeValidationList,
                                  LAMBDA r : r \notin {"MaximumChangeValidation",
                                                       "MaximumItemsChangeValidation",
                                                       "MaximumLengthChangeValidation",
                                                       "MaximumPropertiesChangeValidation"}) ],
      crossVersionValidator |-> [ changeValidations |-> ChangeValidationList ] ]

\* a constructor that leaves the stored-version rule out of the validator
NewPreflight_WithoutNoStoredVersionRemoved ==
    [ validator |-> [ Validations |-> << "NoScopeChange",
                                         "NoExistingFieldRemoved",
                                         "ChangeValidator" >>,
                      ChangeValidations |-> ChangeValidationList ],
      crossVersionValidator |-> [ changeValidations |-> ChangeValidationList ] ]

\* lines 33-81
NewPreflight ==
    [ validator |-> [ Validations |-> << "NoScopeChange",
                                         "NoStoredVersionRemoved",
                                         "NoExistingFieldRemoved",
                                         "ChangeValidator" >>,
                      ChangeValidations |-> ChangeValidationList ],
      crossVersionValidator |-> [ changeValidations |-> ChangeValidationList ] ]

RuleNames == Range(ChangeValidationList)

(***************************************************************************)
(* The kappcus library behind the validators.  A ChangeValidation is a     *)
(* func(FieldDiff) (bool, error): its outcome is a pair (ok, err).  The    *)
(* library is either an oracle (any functions of the library's types,      *)
(* given by tables) or the rule set the design describes.                  *)
(***************************************************************************)
Outcome(ok, err) == [ok |-> ok, err |-> err]

Declines == Outcome(FALSE, Nil)
Approves == Outcome(TRUE, Nil)
Rejects == Outcome(TRUE, "unsafe")
DeclinesWithErr == Outcome(FALSE, "unsafe")

Outcomes == {Declines, Approves, Rejects, DeclinesWithErr}

DiffErr == "DiffErr"

(***************************************************************************)
(* Schemas.  A schema node carries its type, the names of its required     *)
(* children, its enum ({} when unrestricted), its default and its bounds   *)
(* (None when absent), its properties (a function from names to nodes) and *)
(* its items (a sequence of no or one node).                               *)
(***************************************************************************)
None == -1

Node(type, required, enum, default, maximum, minimum, properties, items) ==
    [Type |-> type, Required |-> required, Enum |-> enum, Default |-> default,
     Maximum |-> maximum, MaxItems |-> None, MaxLength |-> None, MaxProperties |-> None,
     Minimum |-> minimum, MinItems |-> None, MinLength |-> None, MinProperties |-> None,
     Properties |-> properties, Items |-> items]

NoProperties == [k \in {} |-> None]

\* the descriptor of a field: the node's own attributes and whether its
\* parent requires it
Descriptor(node, required) ==
    [Present |-> TRUE, Type |-> node.Type, Enum |-> node.Enum, Default |-> node.Default,
     Maximum |-> node.Maximum, MaxItems |-> node.MaxItems, MaxLength |-> node.MaxLength,
     MaxProperties |-> node.MaxProperties,
     Minimum |-> node.Minimum, MinItems |-> node.MinItems, MinLength |-> node.MinLength,
     MinProperties |-> node.MinProperties,
     RequiredInParent |-> required]

\* the side of a FieldDiff on which the field does not exist
NoField ==
    [Present |-> FALSE, Type |-> "", Enum |-> {}, Default |-> None,
     Maximum |-> None, MaxItems |-> None, MaxLength |-> None, MaxProperties |-> None,
     Minimum |-> None, MinItems |-> None, MinLength |-> None, MinProperties |-> None,
     RequiredInParent |-> FALSE]

PropertyPath(prefix, name) == IF prefix = "" THEN name ELSE prefix \o "." \o name

ItemsPath(prefix) == prefix \o "[]"

\* the Flattener's walk: the (path, descriptor) entries below a node
RECURSIVE FlattenNode(_, _)
FlattenNode(prefix, node) ==
    UNION {{[path |-> PropertyPath(prefix, name),
             desc |-> Descriptor(node.Properties[name], name \in node.Required)]}
           \cup FlattenNode(PropertyPath(prefix, name), node.Properties[name]) :
                name \in DOMAIN node.Properties}
    \cup
    UNION {{[path |-> ItemsPath(prefix), desc |-> Descriptor(node.Items[k], FALSE)]}
           \cup FlattenNode(ItemsPath(prefix), node.Items[k]) : k \in DOMAIN node.Items}

\* kappcus.FlattenSchema: the schema tree as a mapping from field path to
\* descriptor.  An oracle library only keeps the schema's identity.
FlattenSchema(lib, schema) ==
    IF lib.kind = "oracle"
    THEN [flat |-> schema]
    ELSE LET entries == FlattenNode("", schema)
         IN  [flat |-> [path \in {e.path : e \in entries} |->
                            (CHOOSE e \in entries : e.path = path).desc]]

FieldDiff(field, old, new) == [Field |-> field, Old |-> old, New |-> new]

\* kappcus.CalculateFlatSchemaDiff: [err, diffs], diffs a function from the
\* fields that changed (removed, added, or present with another descriptor) to
\* their FieldDiff.  It fails only on input a Flattener cannot produce.
CalculateFlatSchemaDiff(lib, flatOld, flatNew) ==
    IF lib.kind = "oracle"
    THEN LET key == <<flatOld.flat, flatNew.flat>>
         IN  IF key \in lib.diffErr
             THEN [err |-> DiffErr, diffs |-> NoProperties]
             ELSE [err |-> Nil,
                   diffs |-> [f \in (IF key \in lib.same THEN {} ELSE lib.fields) |->
                                 FieldDiff(f, flatOld.flat, flatNew.flat)]]
    ELSE LET o == flatOld.flat
             n == flatNew.flat
             side(flat, path) == IF path \in DOMAIN flat THEN flat[path] ELSE NoField
             changed == {path \in DOMAIN o \cup DOMAIN n : side(o, path) # side(n, path)}
         IN  [err |-> Nil,
              diffs |-> [path \in changed |-> FieldDiff(path, side(o, path), side(n, path))]]

\* the attribute each change rule judges
RuleAttribute ==
    [EnumChangeValidation |-> "Enum",
     RequiredFieldChangeValidation |-> "RequiredInParent",
     MaximumChangeValidation |-> "Maximum",
     MaximumItemsChangeValidation |-> "MaxItems",
     MaximumLengthChangeValidation |-> "MaxLength",
     MaximumPropertiesChangeValidation |-> "MaxProperties",
     MinimumChangeValidation |-> "Minimum",
     MinimumItemsChangeValidation |-> "MinItems",
     MinimumLengthChangeValidation |-> "MinLength",
     MinimumPropertiesChangeValidation |-> "MinProperties",
     DefaultValueChangeValidation |-> "Default"]

UpperBoundRules == {"MaximumChangeValidation", "MaximumItemsChangeValidation",
                    "MaximumLengthChangeValidation", "MaximumPropertiesChangeValidation"}

LowerBoundRules == {"MinimumChangeValidation", "MinimumItemsChangeValidation",
                    "MinimumLengthChangeValidation", "MinimumPropertiesChangeValidation"}

\* whether the change of the rule's attribute from old to new is unsafe.  The
\* design leaves open whether a default on the new side excuses a field that
\* becomes required: lib.defaultExempts is the library's choice.
UnsafeChange(lib, rule, diff) ==
    LET old == diff.Old[RuleAttribute[rule]]
        new == diff.New[RuleAttribute[rule]]
    IN
    IF rule = "EnumChangeValidation"
    THEN (old = {} /\ new # {}) \/ ~(old \subseteq new)
    ELSE IF rule = "RequiredFieldChangeValidation"
    THEN new /\ ~(lib.defaultExempts /\ diff.New.Default # None)
    ELSE IF rule \in UpperBoundRules
    THEN new # None /\ (old = None \/ new < old)
    ELSE IF rule \in LowerBoundRules
    THEN new # None /\ (old = None \/ new > old)
    ELSE old # None

\* a change rule of the design: it judges a field present on both sides whose
\* only change is the rule's attribute, and declines every other diff
ChangeRule(lib, rule, diff) ==
    LET attr == RuleAttribute[rule]
    IN  IF /\ diff.Old.Present /\ diff.New.Present
           /\ diff.Old[attr] # diff.New[attr]
           /\ [diff.Old EXCEPT ![attr] = diff.New[attr]] = diff.New
        THEN IF UnsafeChange(lib, rule, diff)
             THEN Rejects
             ELSE Approves
        ELSE Declines

\* one kappcus.ChangeValidation applied to a FieldDiff
validation(lib, rule, diff) ==
    IF lib.kind = "oracle"
    THEN LET key == <<diff.Field, rule>>
         IN  IF key \in DOMAIN lib.outcomes THEN lib.outcomes[key] ELSE Declines
    ELSE ChangeRule(lib, rule, diff)

Kappcus(defaultExempts) == [kind |-> "kappcus", defaultExempts |-> defaultExempts]

Libraries == {Kappcus(TRUE), Kappcus(FALSE)}

(***************************************************************************)
(* crossVersionValidator.Validate                                          *)
(***************************************************************************)
Err(kind, a, b, field, cause) ==
    [kind |-> kind, a |-> a, b |-> b, field |-> field, cause |-> cause]

\* a rule loop that does not stop at the first rule that returns ok
RECURSIVE ruleLoop_NoBreak(_, _, _, _, _, _)
ruleLoop_NoBreak(lib, validations, a, b, field, diff) ==
    IF validations = <<>>
    THEN [errs |-> <<>>, handled |-> FALSE, evals |-> <<>>]
    ELSE LET rule == Head(validations)
             res == validation(lib, rule, diff)
             e == IF res.err # Nil
                  THEN << Err("rule", a, b, field, res.err) >>
                  ELSE <<>>
             ev == << [a |-> a, b |-> b, field |-> field, rule |-> rule, res |-> res] >>
             rest == ruleLoop_NoBreak(lib, Tail(validations), a, b, field, diff)
         IN  [errs |-> e \o rest.errs,
              handled |-> res.ok \/ rest.handled,
              evals |-> ev \o rest.evals]

\* a rule loop that records a rule's error only when that rule returns ok
RECURSIVE ruleLoop_ErrOnlyWhenOk(_, _, _, _, _, _)
ruleLoop_ErrOnlyWhenOk(lib, validations, a, b, field, diff) ==
    IF validations = <<>>
    THEN [errs |-> <<>>, handled |-> FALSE, evals |-> <<>>]
    ELSE LET rule == Head(validations)
             res == validation(lib, rule, diff)
             e == IF res.err # Nil
                  THEN << Err("rule", a, b, field, res.err) >>
                  ELSE <<>>
             ev == << [a |-> a, b |-> b, field |-> field, rule |-> rule, res |-> res] >>
         IN  IF res.ok
             THEN [errs |-> e, handled |-> TRUE, evals |-> ev]
             ELSE LET rest == ruleLoop_ErrOnlyWhenOk(lib, Tail(validations), a, b, field, diff)
                  IN  [errs |-> rest.errs,
                       handled |-> rest.handled,
                       evals |-> ev \o rest.evals]

\* lines 157-166: the rules are tried in list order until one returns ok
RECURSIVE ruleLoop(_, _, _, _, _, _)
ruleLoop(lib, validations, a, b, field, diff) ==
    IF validations = <<>>
    THEN [errs |-> <<>>, handled |-> FALSE, evals |-> <<>>]
    ELSE LET rule == Head(validations)
             res == validation(lib, rule, diff)
             e == IF res.err # Nil
                  THEN << Err("rule", a, b, field, res.err) >>
                  ELSE <<>>
             ev == << [a |-> a, b |-> b, field |-> field, rule |-> rule, res |-> res] >>
         IN  IF res.ok
             THEN [errs |-> e, handled |-> TRUE, evals |-> ev]
             ELSE LET rest == ruleLoop(lib, Tail(validations), a, b, field, diff)
                  IN  [errs |-> e \o rest.errs,
                       handled |-> rest.handled,
                       evals |-> ev \o rest.evals]

\* a field check that adds the unknown-change error only when no rule
\* reported an error of its own
validateField_UnknownOnlyWhenSilent(lib, validations, a, b, field, diff) ==
    LET l == ruleLoop(lib, validations, a, b, field, diff)
    IN  [errs |-> IF ~l.handled /\ l.errs = <<>>
                  THEN << Err("unknown", a, b, field, Nil) >>
                  ELSE l.errs,
         evals |-> l.evals]

\* lines 155-171: one field diff of one compared pair
validateField(lib, validations, a, b, field, diff) ==
    LET l == ruleLoop(lib, validations, a, b, field, diff)
    IN  [errs |-> IF ~l.handled
                  THEN l.errs \o << Err("unknown", a, b, field, Nil) >>
                  ELSE l.errs,
         evals |-> l.evals]

\* a comparison that takes versionB's schema as old and versionA's as new
comparePair_Swapped(lib, validations, order, versionA, versionB) ==
    LET flatOld == FlattenSchema(lib, versionB.Schema)
        flatNew == FlattenSchema(lib, versionA.Schema)
        d == CalculateFlatSchemaDiff(lib, flatOld, flatNew)
        fields == SelectSeq(order, LAMBDA f : f \in DOMAIN d.diffs)
        perField == [k \in DOMAIN fields |->
                        validateField(lib, validations, versionA.Name, versionB.Name,
                                      fields[k], d.diffs[fields[k]])]
        cmp == << [a |-> versionA.Name, b |-> versionB.Name,
                   old |-> versionA.Schema, new |-> versionB.Schema] >>
    IN  IF d.err # Nil
        THEN [errs |-> << Err("diff", versionA.Name, versionB.Name, Nil, Nil) >>,
              evals |-> <<>>, compared |-> cmp]
        ELSE [errs |-> Flat([k \in DOMAIN fields |-> perField[k].errs]),
              evals |-> Flat([k \in DOMAIN fields |-> perField[k].evals]),
              compared |-> cmp]

\* lines 146-171: one ordered pair of versions, versionA as old, versionB as new
comparePair(lib, validations, order, versionA, versionB) ==
    LET flatOld == FlattenSchema(lib, versionA.Schema)
        flatNew == FlattenSchema(lib, versionB.Schema)
        d == CalculateFlatSchemaDiff(lib, flatOld, flatNew)
        fields == SelectSeq(order, LAMBDA f : f \in DOMAIN d.diffs)
        perField == [k \in DOMAIN fields |->
                        validateField(lib, validations, versionA.Name, versionB.Name,
                                      fields[k], d.diffs[fields[k]])]
        cmp == << [a |-> versionA.Name, b |-> versionB.Name,
                   old |-> versionA.Schema, new |-> versionB.Schema] >>
    IN  IF d.err # Nil
        THEN [errs |-> << Err("diff", versionA.Name, versionB.Name, Nil, Nil) >>,
              evals |-> <<>>, compared |-> cmp]
        ELSE [errs |-> Flat([k \in DOMAIN fields |-> perField[k].errs]),
              evals |-> Flat([k \in DOMAIN fields |-> perField[k].evals]),
              compared |-> cmp]

\* the prefix of cells up to and including the first one that holds an error
RECURSIVE UpToFirstError(_)
UpToFirstError(cells) ==
    IF cells = <<>> THEN <<>>
    ELSE IF Head(cells).errs # <<>> THEN <<Head(cells)>>
    ELSE <<Head(cells)>> \o UpToFirstError(Tail(cells))

CrossVersionResult(cells) ==
    LET errs == Flat([k \in DOMAIN cells |-> cells[k].errs])
    IN  [op |-> "crossVersionValidate",
         ret |-> Join(errs),
         errs |-> errs,
         evals |-> Flat([k \in DOMAIN cells |-> cells[k].evals]),
         compared |-> Flat([k \in DOMAIN cells |-> cells[k].compared])]

SkippedPair == [errs |-> <<>>, evals |-> <<>>, compared |-> <<>>]

\* a Validate that returns at the first pair that produced an error
crossVersionValidate_ShortCircuit(cvv, lib, order, crd) ==
    LET n == Len(crd.Versions)
        cell(i, j) == IF crd.Versions[i].Name = crd.Versions[j].Name
                      THEN SkippedPair
                      ELSE comparePair(lib, cvv.changeValidations, order,
                                       crd.Versions[i], crd.Versions[j])
        row(i) == [j \in 1..n |-> cell(i, j)]
    IN  CrossVersionResult(UpToFirstError(Flat([i \in 1..n |-> row(i)])))

\* a Validate that compares each pair of versions in one direction only
crossVersionValidate_OneDirection(cvv, lib, order, crd) ==
    LET n == Len(crd.Versions)
        cell(i, j) == IF crd.Versions[i].Name = crd.Versions[j].Name \/ j < i
                      THEN SkippedPair
                      ELSE comparePair(lib, cvv.changeValidations, order,
                                       crd.Versions[i], crd.Versions[j])
        row(i) == [j \in 1..n |-> cell(i, j)]
    IN  CrossVersionResult(Flat([i \in 1..n |-> row(i)]))

\* lines 136-176.  order is the order in which the Go runtime ranges over the
\* diff map.
crossVersionValidate(cvv, lib, order, crd) ==
    LET n == Len(crd.Versions)
        cell(i, j) == IF crd.Versions[i].Name = crd.Versions[j].Name
                      THEN SkippedPair
                      ELSE comparePair(lib, cvv.changeValidations, order,
                                       crd.Versions[i], crd.Versions[j])
        row(i) == [j \in 1..n |-> cell(i, j)]
    IN  CrossVersionResult(Flat([i \in 1..n |-> row(i)]))

(***************************************************************************)
(* Inputs of a crossVersionValidator.Validate call.                        *)
(***************************************************************************)
NamePairs == {pr \in Names \X Names : pr[1] # pr[2]}

FieldOrders == {<<"x", "x.y", "x[]", "y">>, <<"y", "x[]", "x.y", "x">>}

\* a version whose schema is known only by an identity (that of its name)
OpaqueVersion(name) == [Name |-> name, Schema |-> name]

VersionName == <<"v1", "v2", "v3">>

NameIndex(name) == CHOOSE i \in DOMAIN VersionName : VersionName[i] = name

\* version names are opaque to Validate, which only compares them: the lists
\* of names are taken up to renaming, each new name the next of VersionName
FirstUse(vs) ==
    \A k \in DOMAIN vs :
        \/ \E j \in 1..(k - 1) : vs[j] = vs[k]
        \/ NameIndex(vs[k]) = Cardinality({vs[j] : j \in 1..(k - 1)}) + 1

OpaqueCRDs == {[Name |-> "widgets", Versions |-> [k \in DOMAIN vs |-> OpaqueVersion(vs[k])]] :
                    vs \in {ns \in SeqsUpTo(Names, MaxVersions) : FirstUse(ns)}}

\* An oracle library: the pairs of schemas whose diff fails (diffErr), the
\* pairs without a difference (same), the fields every other pair differs in
\* (fields), and per field and rule the outcome of a rule that does not
\* simply decline (outcomes).
Oracle(E, S, F, out) ==
    [kind |-> "oracle", diffErr |-> E, same |-> S, fields |-> F, outcomes |-> out]

\* Oracles for the pair loop: every compared pair differs in the same
\* fields, at most one pair fails to diff, and each field has at most one rule
\* (the first or the last of the list) that does not simply decline.
ProbeRules == {ChangeValidationList[1], ChangeValidationList[Len(ChangeValidationList)]}

FieldProfiles == {<<>>} \cup {<<r, o>> : r \in ProbeRules, o \in Outcomes \ {Declines}}

ProfileOutcomes(F, prof) ==
    [key \in {k \in F \X RuleNames : prof[k[1]] # <<>> /\ k[2] = prof[k[1]][1]} |->
        prof[key[1]][2]]

PairCall(crd, F, E, prof, order) ==
    [op |-> "crossVersionValidate", crd |-> crd,
     lib |-> Oracle(E, {}, F, ProfileOutcomes(F, prof)), order |-> order]

\* Oracles for the rule loop: v1 compared to v2 differs in field x, and at
\* most MaxOverrides rules do not simply decline it.
DispatchCall(ov) ==
    [op |-> "crossVersionValidate",
     crd |-> [Name |-> "widgets", Versions |-> <<OpaqueVersion("v1"), OpaqueVersion("v2")>>],
     lib |-> Oracle({}, {<<"v2", "v1">>}, {"x"}, [key \in {"x"} \X DOMAIN ov |-> ov[key[2]]]),
     order |-> <<"x", "x.y", "x[]", "y">>]

InitCrossVersionValidate ==
    \/ \E crd \in OpaqueCRDs, F \in SUBSET Fields :
         \E E \in SubsetsUpTo(DistinctPairs(VersionNames(crd)), 1),
            prof \in [F -> FieldProfiles],
            order \in IF F = Fields THEN FieldOrders ELSE {<<"x", "x.y", "x[]", "y">>} :
              call = PairCall(crd, F, E, prof, order)
    \/ \E R \in SubsetsUpTo(RuleNames, MaxOverrides) :
         \E ov \in [R -> Outcomes \ {Declines}] :
              call = DispatchCall(ov)

(***************************************************************************)
(* kappcus.Validator.Validate(old, new): the structural rules and the      *)
(* change rules over the versions the two definitions share, every failure *)
(* aggregated.                                                             *)
(***************************************************************************)
VErr(kind, version, field, cause) ==
    [kind |-> kind, a |-> version, b |-> version, field |-> field, cause |-> cause]

NoScopeChange(old, new) ==
    IF old.Scope # new.Scope THEN << VErr("NoScopeChange", Nil, Nil, Nil) >> ELSE <<>>

NoStoredVersionRemoved(old, new) ==
    IF \E name \in old.StoredVersions : name \notin VersionNames(new)
    THEN << VErr("NoStoredVersionRemoved", Nil, Nil, Nil) >>
    ELSE <<>>

\* the versions of old that new still declares, in old's order, each with
\* the schema new gives it
SharedVersions(old, new) ==
    LET kept == SelectSeq(old.Versions, LAMBDA v : v.Name \in VersionNames(new))
    IN  [k \in DOMAIN kept |->
            [Name |-> kept[k].Name, Old |-> kept[k].Schema,
             New |-> (CHOOSE v \in Range(new.Versions) : v.Name = kept[k].Name).Schema]]

NoExistingFieldRemoved(lib, old, new) ==
    LET shared == SharedVersions(old, new)
        removed(v) == DOMAIN FlattenSchema(lib, v.Old).flat
                        \ DOMAIN FlattenSchema(lib, v.New).flat
    IN  Flat([k \in DOMAIN shared |->
                IF removed(shared[k]) # {}
                THEN << VErr("NoExistingFieldRemoved", shared[k].Name, Nil, Nil) >>
                ELSE <<>>])

\* the change rules on the diff of one version, its fields in the given order
validateVersion(validations, lib, order, name, d) ==
    IF d.err # Nil
    THEN << VErr("diff", name, Nil, Nil) >>
    ELSE Flat([k \in DOMAIN order |->
                IF order[k] \in DOMAIN d.diffs
                THEN validateField(lib, validations, name, name, order[k],
                                   d.diffs[order[k]]).errs
                ELSE <<>>])

validateVersions(validations, lib, order, shared) ==
    Flat([k \in DOMAIN shared |->
            validateVersion(validations, lib, order, shared[k].Name,
                            CalculateFlatSchemaDiff(lib, FlattenSchema(lib, shared[k].Old),
                                                    FlattenSchema(lib, shared[k].New)))])

ChangeValidator(validations, lib, order, old, new) ==
    validateVersions(validations, lib, order, SharedVersions(old, new))

ValidateResult(errs) == [op |-> "Validate", ret |-> Join(errs), errs |-> errs]

\* one Validation of the validator's list, by the name NewPreflight gives it
Validation(name, validator, lib, order, old, new) ==
    IF name = "NoScopeChange" THEN NoScopeChange(old, new)
    ELSE IF name = "NoStoredVersionRemoved" THEN NoStoredVersionRemoved(old, new)
    ELSE IF name = "NoExistingFieldRemoved" THEN NoExistingFieldRemoved(lib, old, new)
    ELSE ChangeValidator(validator.ChangeValidations, lib, order, old, new)

\* every Validation of the list runs, and all their errors are returned
Validate(validator, lib, order, old, new) ==
    ValidateResult(Flat([k \in DOMAIN validator.Validations |->
                            Validation(validator.Validations[k], validator, lib, order,
                                       old, new)]))

(***************************************************************************)
(* The schemas and definitions the calls are drawn from.                   *)
(***************************************************************************)
Leaf(type, enum, default, maximum) ==
    Node(type, {}, enum, default, maximum, None, NoProperties, <<>>)

Object(required, properties) ==
    Node("object", required, {}, None, None, None, properties, <<>>)

Array(items) ==
    Node("array", {}, {}, None, None, None, NoProperties, <<items>>)

Integer == Leaf("integer", {}, None, None)

Str == Leaf("string", {}, None, None)

SchemaPool ==
    { Object({}, [x |-> Integer]),
      Object({"x"}, [x |-> Integer]),
      Object({"x"}, [x |-> Leaf("integer", {}, 1, None)]),
      Object({}, [x |-> Leaf("integer", {}, 1, None)]),
      Object({}, [x |-> Leaf("integer", {}, None, 10)]),
      Object({}, [x |-> Leaf("integer", {}, None, 5)]),
      Object({}, [x |-> Str]),
      Object({}, [x |-> Leaf("string", {"A", "B"}, None, None)]),
      Object({}, [x |-> Leaf("string", {"A"}, None, None)]),
      Object({}, [x |-> Integer, y |-> Str]),
      Object({"x"}, [x |-> Integer, y |-> Str]),
      Object({}, [x |-> Object({"y"}, [y |-> Integer])]),
      Object({}, [x |-> Object({}, [y |-> Integer])]),
      Object({}, [x |-> Array(Str)]) }

\* more schemas for Validate: a wider enum, a higher maximum, and the other
\* upper bounds (length of a string, items of an array, properties of an
\* object) absent, 10 and 5
ValidatePool ==
    SchemaPool \cup
    { Object({}, [x |-> Leaf("string", {"A", "B", "C"}, None, None)]),
      Object({}, [x |-> Leaf("integer", {}, None, 20)]),
      Object({}, [x |-> [Str EXCEPT !.MaxLength = 10]]),
      Object({}, [x |-> [Str EXCEPT !.MaxLength = 5]]),
      Object({}, [x |-> [Array(Str) EXCEPT !.MaxItems = 10]]),
      Object({}, [x |-> [Array(Str) EXCEPT !.MaxItems = 5]]),
      Object({}, [x |-> [Object({}, [y |-> Integer]) EXCEPT !.MaxProperties = 10]]),
      Object({}, [x |-> [Object({}, [y |-> Integer]) EXCEPT !.MaxProperties = 5]]) }

Version(name, schema) == [Name |-> name, Schema |-> schema]

CRD(name, scope, versions, stored) ==
    [Name |-> name, Scope |-> scope, Versions |-> versions, StoredVersions |-> stored]

\* the definitions the cluster serves: stored versions are declared versions
ActiveCRD(name) ==
    CRD(name, "Namespaced", << Version("v1", Object({}, [x |-> Integer])) >>, {"v1"})

CRDNames == {"widgets", "gadgets"}

\* what a release proposes for a definition: no change, another scope, a
\* field made required, a field made required and a second version that
\* leaves it optional, a second version that makes it required, the stored
\* version dropped
Proposals(name) ==
    { ActiveCRD(name),
      CRD(name, "Cluster", ActiveCRD(name).Versions, {"v1"}),
      CRD(name, "Namespaced", << Version("v1", Object({"x"}, [x |-> Integer])) >>, {"v1"}),
      CRD(name, "Namespaced", << Version("v1", Object({"x"}, [x |-> Integer])),
                                  Version("v2", Object({}, [x |-> Integer])) >>, {"v1"}),
      CRD(name, "Namespaced", << Version("v1", Object({}, [x |-> Integer])),
                                  Version("v2", Object({"x"}, [x |-> Integer])) >>, {"v1"}),
      CRD(name, "Namespaced", << Version("v2", Object({}, [x |-> Integer])) >>, {"v2"}) }

(***************************************************************************)
(* Preflight.Upgrade.                                                      *)
(*                                                                         *)
(* The arguments of a call: rel is "nil" or a release, parseErr whether    *)
(* its manifest fails to parse, objects the objects of the manifest (each  *)
(* with its group/version/kind, whether it converts to a CRD, and the CRD  *)
(* it holds), cluster the answer of the definition client's Get per name:  *)
(* "found", or "notFound" for a Get that returns an error, whichever error *)
(* it is (line 114 tells none apart).                                      *)
(***************************************************************************)
GVK(group, version, kind) == [Group |-> group, Version |-> version, Kind |-> kind]

CRDKind == GVK("apiextensions.k8s.io", "v1", "CustomResourceDefinition")

UErr(kind, name, cause) == [isNil |-> FALSE, kind |-> kind, name |-> name, cause |-> cause]

UpgradeResult(ret, acc) ==
    [op |-> "Upgrade", ret |-> ret, validateErrors |-> acc.validateErrors,
     reads |-> acc.reads, validated |-> acc.validated,
     crossValidated |-> acc.crossValidated]

NoCalls == [validateErrors |-> <<>>, reads |-> <<>>, validated |-> <<>>,
            crossValidated |-> <<>>]

\* lines 119-121, 124-126: a failed check adds its error, wrapped with the
\* check and the definition's name
WrapError(kind, name, ret) ==
    IF ret # NoError THEN << UErr(kind, name, ret) >> ELSE <<>>

\* a check of one definition that skips the cross-version validator once the
\* Validator has failed
checkCRD_SkipsCrossVersion(pf, in, oldCrd, newCrd) ==
    LET skip(e1) ==
            IF e1 # <<>>
            THEN [errs |-> e1, validated |-> << <<oldCrd, newCrd>> >>, crossValidated |-> <<>>]
            ELSE [errs |-> WrapError("cross version validation", newCrd.Name,
                               crossVersionValidate(pf.crossVersionValidator, in.lib,
                                                    in.order, newCrd).ret),
                  validated |-> << <<oldCrd, newCrd>> >>, crossValidated |-> << newCrd >>]
    IN  skip(WrapError("validating upgrade", newCrd.Name,
                       Validate(pf.validator, in.lib, in.order, oldCrd, newCrd).ret))

\* lines 118-126: the two checks of one definition and the errors they add
checkCRD(pf, in, oldCrd, newCrd) ==
    [errs |-> WrapError("validating upgrade", newCrd.Name,
                        Validate(pf.validator, in.lib, in.order, oldCrd, newCrd).ret)
              \o WrapError("cross version validation", newCrd.Name,
                           crossVersionValidate(pf.crossVersionValidator, in.lib,
                                                in.order, newCrd).ret),
     validated |-> << <<oldCrd, newCrd>> >>,
     crossValidated |-> << newCrd >>]

\* lines 120, 125: the errors of a checked definition join those collected
Collect(acc, chk) ==
    [acc EXCEPT !.validateErrors = @ \o chk.errs,
                !.validated = @ \o chk.validated,
                !.crossValidated = @ \o chk.crossValidated]

\* a loop that collects the error of a failed read with the validation
\* failures and goes on to the next object
RECURSIVE upgradeLoop_ContinuesAfterFailedRead(_, _, _, _)
upgradeLoop_ContinuesAfterFailedRead(pf, in, k, acc) ==
    IF k > Len(in.objects)
    THEN UpgradeResult(Join(acc.validateErrors), acc)
    ELSE LET obj == in.objects[k]
         IN  IF obj.gvk # CRDKind
             THEN upgradeLoop_ContinuesAfterFailedRead(pf, in, k + 1, acc)
             ELSE IF obj.convert # "ok"
             THEN UpgradeResult(UErr(obj.convert, obj.crd.Name, NoError), acc)
             ELSE LET newCrd == obj.crd
                      get == in.cluster[newCrd.Name]
                      acc1 == [acc EXCEPT !.reads = Append(@, newCrd.Name)]
                  IN  IF get # "found"
                      THEN upgradeLoop_ContinuesAfterFailedRead(pf, in, k + 1,
                               [acc1 EXCEPT !.validateErrors =
                                    Append(@, UErr("getting existing resource",
                                                   newCrd.Name, NoError))])
                      ELSE upgradeLoop_ContinuesAfterFailedRead(pf, in, k + 1,
                               Collect(acc1, checkCRD(pf, in, ActiveCRD(newCrd.Name), newCrd)))

\* a loop that takes an object for a definition by its Kind alone
RECURSIVE upgradeLoop_MatchesKindOnly(_, _, _, _)
upgradeLoop_MatchesKindOnly(pf, in, k, acc) ==
    IF k > Len(in.objects)
    THEN UpgradeResult(Join(acc.validateErrors), acc)
    ELSE LET obj == in.objects[k]
         IN  IF obj.gvk.Kind # CRDKind.Kind
             THEN upgradeLoop_MatchesKindOnly(pf, in, k + 1, acc)
             ELSE IF obj.convert # "ok"
             THEN UpgradeResult(UErr(obj.convert, obj.crd.Name, NoError), acc)
             ELSE LET newCrd == obj.crd
                      get == in.cluster[newCrd.Name]
                      acc1 == [acc EXCEPT !.reads = Append(@, newCrd.Name)]
                  IN  IF get # "found"
                      THEN UpgradeResult(UErr("getting existing resource", newCrd.Name, NoError),
                                         acc1)
                      ELSE upgradeLoop_MatchesKindOnly(pf, in, k + 1,
                               Collect(acc1, checkCRD(pf, in, ActiveCRD(newCrd.Name), newCrd)))

\* lines 98-129: the objects from the k-th on
RECURSIVE upgradeLoop(_, _, _, _)
upgradeLoop(pf, in, k, acc) ==
    IF k > Len(in.objects)
    THEN UpgradeResult(Join(acc.validateErrors), acc)
    ELSE LET obj == in.objects[k]
         IN  IF obj.gvk # CRDKind
             THEN upgradeLoop(pf, in, k + 1, acc)
             ELSE IF obj.convert # "ok"
             THEN UpgradeResult(UErr(obj.convert, obj.crd.Name, NoError), acc)
             ELSE LET newCrd == obj.crd
                      get == in.cluster[newCrd.Name]
                      acc1 == [acc EXCEPT !.reads = Append(@, newCrd.Name)]
                  IN  IF get # "found"
                      THEN UpgradeResult(UErr("getting existing resource", newCrd.Name, NoError),
                                         acc1)
                      ELSE upgradeLoop(pf, in, k + 1,
                               Collect(acc1, checkCRD(pf, in, ActiveCRD(newCrd.Name), newCrd)))

\* lines 87-130
Upgrade(pf, in) ==
    IF in.rel = "nil"
    THEN UpgradeResult(NoError, NoCalls)
    ELSE IF in.parseErr
    THEN UpgradeResult(UErr("parsing release objects", Nil, NoError), NoCalls)
    ELSE upgradeLoop(pf, in, 1, NoCalls)

(***************************************************************************)
(* Preflight.Upgrade step by step, for calls that run concurrently on one  *)
(* Preflight.  A caller is at the entry of Upgrade (k = 0), before the     *)
(* k-th object of its release, or has returned (ret is what it returned).  *)
(* A step is what the caller does up to its next iteration of the loop; it *)
(* gives the caller's next position and the Preflight it leaves behind.    *)
(***************************************************************************)
Running == [op |-> "running"]

Caller(k, acc, ret) == [k |-> k, acc |-> acc, ret |-> ret]

StepResult(pf, caller) == [pf |-> pf, caller |-> caller]

\* a step whose validation uses up the cross-version validator's rule list
upgradeStep_ConsumesRules(pf, in, c) ==
    IF c.k = 0
    THEN IF in.rel = "nil"
         THEN StepResult(pf, Caller(0, c.acc, UpgradeResult(NoError, NoCalls)))
         ELSE IF in.parseErr
         THEN StepResult(pf, Caller(0, c.acc,
                    UpgradeResult(UErr("parsing release objects", Nil, NoError), NoCalls)))
         ELSE StepResult(pf, Caller(1, c.acc, Running))
    ELSE IF c.k > Len(in.objects)
    THEN StepResult(pf, Caller(c.k, c.acc, UpgradeResult(Join(c.acc.validateErrors), c.acc)))
    ELSE IF in.objects[c.k].gvk # CRDKind
    THEN StepResult(pf, Caller(c.k + 1, c.acc, Running))
    ELSE IF in.objects[c.k].convert # "ok"
    THEN StepResult(pf, Caller(c.k, c.acc,
                UpgradeResult(UErr(in.objects[c.k].convert, in.objects[c.k].crd.Name, NoError),
                              c.acc)))
    ELSE IF in.cluster[in.objects[c.k].crd.Name] # "found"
    THEN StepResult(pf, Caller(c.k, c.acc,
                UpgradeResult(UErr("getting existing resource", in.objects[c.k].crd.Name,
                                   NoError),
                              [c.acc EXCEPT !.reads = Append(@, in.objects[c.k].crd.Name)])))
    ELSE StepResult([pf EXCEPT !.crossVersionValidator.changeValidations = <<>>],
                    Caller(c.k + 1,
                           Collect([c.acc EXCEPT !.reads = Append(@, in.objects[c.k].crd.Name)],
                                   checkCRD(pf, in, ActiveCRD(in.objects[c.k].crd.Name),
                                            in.objects[c.k].crd)),
                           Running))

\* lines 87-130, one iteration at a time: no branch assigns a field of p
upgradeStep(pf, in, c) ==
    IF c.k = 0
    THEN IF in.rel = "nil"
         THEN StepResult(pf, Caller(0, c.acc, UpgradeResult(NoError, NoCalls)))
         ELSE IF in.parseErr
         THEN StepResult(pf, Caller(0, c.acc,
                    UpgradeResult(UErr("parsing release objects", Nil, NoError), NoCalls)))
         ELSE StepResult(pf, Caller(1, c.acc, Running))
    ELSE IF c.k > Len(in.objects)
    THEN StepResult(pf, Caller(c.k, c.acc, UpgradeResult(Join(c.acc.validateErrors), c.acc)))
    ELSE IF in.objects[c.k].gvk # CRDKind
    THEN StepResult(pf, Caller(c.k + 1, c.acc, Running))
    ELSE IF in.objects[c.k].convert # "ok"
    THEN StepResult(pf, Caller(c.k, c.acc,
                UpgradeResult(UErr(in.objects[c.k].convert, in.objects[c.k].crd.Name, NoError),
                              c.acc)))
    ELSE IF in.cluster[in.objects[c.k].crd.Name] # "found"
    THEN StepResult(pf, Caller(c.k, c.acc,
                UpgradeResult(UErr("getting existing resource", in.objects[c.k].crd.Name,
                                   NoError),
                              [c.acc EXCEPT !.reads = Append(@, in.objects[c.k].crd.Name)])))
    ELSE StepResult(pf,
                    Caller(c.k + 1,
                           Collect([c.acc EXCEPT !.reads = Append(@, in.objects[c.k].crd.Name)],
                                   checkCRD(pf, in, ActiveCRD(in.objects[c.k].crd.Name),
                                            in.objects[c.k].crd)),
                           Running))

\* an Install that checks the release as Upgrade does
Install_AsUpgrade(pf, in) == [Upgrade(pf, in) EXCEPT !.op = "Install"]

\* lines 83-85: both arguments are ignored
Install(pf, in) ==
    [op |-> "Install", ret |-> NoError, validateErrors |-> <<>>, reads |-> <<>>,
     validated |-> <<>>, crossValidated |-> <<>>]

Obj(gvk, convert, crd) == [gvk |-> gvk, convert |-> convert, crd |-> crd]

ReleaseObjects ==
    {Obj(CRDKind, "ok", crd) : crd \in Proposals("widgets")}
    \cup {Obj(CRDKind, "ok", crd) :
                crd \in {ActiveCRD("gadgets"),
                         CRD("gadgets", "Cluster", ActiveCRD("gadgets").Versions, {"v1"})}}
    \cup {Obj(CRDKind, "converting to unstructured", ActiveCRD("gadgets")),
          Obj(CRDKind, "converting unstructured to CRD", ActiveCRD("gadgets")),
          Obj(GVK("apiextensions.k8s.io", "v1beta1", "CustomResourceDefinition"), "ok",
              ActiveCRD("widgets")),
          Obj(GVK("apps", "v1", "Deployment"), "ok", ActiveCRD("widgets"))}

\* the definitions of ReleaseObjects differ from the active ones in one field
\* at most, so the order in which a diff's fields are visited plays no part
FirstOrder == <<"x", "x.y", "x[]", "y">>

UpgradeCall(rel, parseErr, objects, cluster, lib) ==
    [op |-> "Upgrade", rel |-> rel, parseErr |-> parseErr, objects |-> objects,
     cluster |-> cluster, lib |-> lib, order |-> FirstOrder]

InitUpgrade ==
    \/ \E rel \in {"nil", "release"} :
            call = UpgradeCall(rel, TRUE, <<>>, [n \in CRDNames |-> "found"], Kappcus(FALSE))
    \/ \E objects \in SeqsUpTo(ReleaseObjects, MaxObjects),
           cluster \in [CRDNames -> {"found", "notFound"}],
           lib \in Libraries :
            call = UpgradeCall("release", FALSE, objects, cluster, lib)

\* the callers that share the Preflight
Callers == {1, 2}

\* what the releases of concurrent callers hold: a definition that fails both
\* checks, a definition the cluster does not hold, an object that is no
\* definition
ConcurrentObjects ==
    { Obj(CRDKind, "ok",
          CRD("widgets", "Namespaced",
              << Version("v1", Object({"x"}, [x |-> Integer])),
                 Version("v2", Object({}, [x |-> Integer])) >>, {"v1"})),
      Obj(CRDKind, "ok", ActiveCRD("gadgets")),
      Obj(GVK("apps", "v1", "Deployment"), "ok", ActiveCRD("widgets")) }

\* concurrent callers read the same cluster, which holds widgets and not
\* gadgets
InitConcurrentUpgrade ==
    \E releases \in [Callers -> SeqsUpTo(ConcurrentObjects, MaxConcurrentObjects)] :
        /\ call = [op |-> "ConcurrentUpgrade",
                   calls |-> [i \in Callers |->
                                UpgradeCall("release", FALSE, releases[i],
                                            [n \in CRDNames |->
                                                IF n = "gadgets" THEN "notFound" ELSE "found"],
                                            Kappcus(FALSE))]]
        /\ result = [op |-> "ConcurrentUpgrade",
                     callers |-> [i \in Callers |-> Caller(0, NoCalls, Running)]]

\* Install on no release, on a release that does not parse, and on releases
\* with definitions that Upgrade would reject or fail to read
InitInstall ==
    \E rel \in {"nil", "release"}, parseErr \in BOOLEAN,
       objects \in SeqsUpTo(ConcurrentObjects, MaxConcurrentObjects),
       gadgets \in {"found", "notFound"} :
        call = [UpgradeCall(rel, parseErr, objects,
                            [n \in CRDNames |-> IF n = "gadgets" THEN gadgets ELSE "found"],
                            Kappcus(FALSE))
                    EXCEPT !.op = "Install"]

\* a definition with up to MaxSchemaVersions versions over the schema pool
InitCrossVersionSchemas ==
    \E n \in 0..MaxSchemaVersions, order \in FieldOrders, lib \in Libraries :
        \E schemas \in [1..n -> SchemaPool] :
            call = [op |-> "crossVersionValidate",
                    crd |-> CRD("widgets", "Namespaced",
                                [k \in 1..n |-> Version(VersionName[k], schemas[k])], {}),
                    lib |-> lib, order |-> order]

\* Validate(old, new) on single-version definitions over the schema pool,
\* and on what a release proposes for an active definition
InitValidate ==
    \/ \E so \in ValidatePool, sn \in ValidatePool, scope \in {"Namespaced", "Cluster"},
           order \in FieldOrders, lib \in Libraries :
            call = [op |-> "Validate",
                    old |-> CRD("widgets", "Namespaced", << Version("v1", so) >>, {"v1"}),
                    new |-> CRD("widgets", scope, << Version("v1", sn) >>, {"v1"}),
                    lib |-> lib, order |-> order]
    \/ \E old \in Proposals("widgets"), new \in Proposals("widgets"), lib \in Libraries :
            call = [op |-> "Validate", old |-> old, new |-> new,
                    lib |-> lib, order |-> FirstOrder]

(***************************************************************************)
(* Helm.Apply and Helm.getReleaseState.                                    *)
(*                                                                         *)
(* The arguments of a call give what the collaborators answer: get is the  *)
(* answer of the action client's Get ("found", "notFound" or "err"),       *)
(* status the status of the current release, dryRun the answer of the      *)
(* dry-run Upgrade ("same" or "different" manifest, or "err"), preflights  *)
(* the configured Preflights (whether each is the CRD upgrade-safety       *)
(* preflight and whether its Install and Upgrade checks fail), cfg the     *)
(* extension's Spec.Preflight, outcome what happens from the Helm action   *)
(* on ("ok", "actionErr", "manifestErr") and early the step before         *)
(* getReleaseState that fails, if any.                                     *)
(***************************************************************************)
AErr(src, k) == [src |-> src, k |-> k]

NoErr == AErr("nil", 0)

Event(name, k, failed) == [ev |-> name, k |-> k, failed |-> failed]

\* a detection that looks at the manifests alone
getReleaseState_IgnoresStatus(in) ==
    IF in.get = "err"
    THEN [state |-> "Error", err |-> AErr("Get", 0),
          trace |-> << Event("Get", 0, TRUE) >>]
    ELSE IF in.get = "notFound"
    THEN [state |-> "NeedsInstall", err |-> NoErr,
          trace |-> << Event("Get", 0, TRUE) >>]
    ELSE IF in.dryRun = "err"
    THEN [state |-> "Error", err |-> AErr("DryRunUpgrade", 0),
          trace |-> << Event("Get", 0, FALSE), Event("DryRunUpgrade", 0, TRUE) >>]
    ELSE [state |-> IF in.dryRun = "different" THEN "NeedsUpgrade" ELSE "Unchanged",
          err |-> NoErr,
          trace |-> << Event("Get", 0, FALSE), Event("DryRunUpgrade", 0, FALSE) >>]

\* lines 149-185
getReleaseState(in) ==
    IF in.get = "err"
    THEN [state |-> "Error", err |-> AErr("Get", 0),
          trace |-> << Event("Get", 0, TRUE) >>]
    ELSE IF in.get = "notFound"
    THEN [state |-> "NeedsInstall", err |-> NoErr,
          trace |-> << Event("Get", 0, TRUE) >>]
    ELSE IF in.dryRun = "err"
    THEN [state |-> "Error", err |-> AErr("DryRunUpgrade", 0),
          trace |-> << Event("Get", 0, FALSE), Event("DryRunUpgrade", 0, TRUE) >>]
    ELSE [state |-> IF in.dryRun = "different" \/ in.status = "failed"
                        \/ in.status = "superseded"
                    THEN "NeedsUpgrade"
                    ELSE "Unchanged",
          err |-> NoErr,
          trace |-> << Event("Get", 0, FALSE), Event("DryRunUpgrade", 0, FALSE) >>]

\* a loop without the opt-out
SkipsPreflight_Never(cfg, preflight) == FALSE

\* lines 84-90: the CRD upgrade-safety preflight is skipped when disabled
SkipsPreflight(cfg, preflight) ==
    /\ cfg \in {"enabled", "disabled"}
    /\ preflight.crdUpgradeSafety
    /\ cfg = "disabled"

\* a preflight loop that goes on to the next preflight when a check failed
RECURSIVE preflightLoop_IgnoresFailure(_, _, _)
preflightLoop_IgnoresFailure(in, state, k) ==
    IF k > Len(in.preflights)
    THEN [err |-> NoErr, trace |-> <<>>]
    ELSE LET preflight == in.preflights[k]
             rest == preflightLoop_IgnoresFailure(in, state, k + 1)
         IN  IF SkipsPreflight(in.cfg, preflight)
             THEN rest
             ELSE IF state = "NeedsInstall"
             THEN [err |-> rest.err,
                   trace |-> << Event("preflight.Install", k, preflight.installErr) >>
                                \o rest.trace]
             ELSE IF state = "NeedsUpgrade"
             THEN [err |-> rest.err,
                   trace |-> << Event("preflight.Upgrade", k, preflight.upgradeErr) >>
                                \o rest.trace]
             ELSE rest

\* lines 83-103: the preflights from the k-th on
RECURSIVE preflightLoop(_, _, _)
preflightLoop(in, state, k) ==
    IF k > Len(in.preflights)
    THEN [err |-> NoErr, trace |-> <<>>]
    ELSE LET preflight == in.preflights[k]
             rest == preflightLoop(in, state, k + 1)
         IN  IF SkipsPreflight(in.cfg, preflight)
             THEN rest
             ELSE IF state = "NeedsInstall"
             THEN IF preflight.installErr
                  THEN [err |-> AErr("preflight.Install", k),
                        trace |-> << Event("preflight.Install", k, TRUE) >>]
                  ELSE [err |-> rest.err,
                        trace |-> << Event("preflight.Install", k, FALSE) >> \o rest.trace]
             ELSE IF state = "NeedsUpgrade"
             THEN IF preflight.upgradeErr
                  THEN [err |-> AErr("preflight.Upgrade", k),
                        trace |-> << Event("preflight.Upgrade", k, TRUE) >>]
                  ELSE [err |-> rest.err,
                        trace |-> << Event("preflight.Upgrade", k, FALSE) >> \o rest.trace]
             ELSE rest

ApplyResult(state, err, trace) ==
    [op |-> "Apply", state |-> state, err |-> err, trace |-> trace]

\* lines 105-136: the Helm action for the state, then the managed objects
helmAction(in, state, trace) ==
    LET name == IF state = "NeedsInstall" THEN "Install"
                ELSE IF state = "NeedsUpgrade" THEN "Upgrade"
                ELSE "Reconcile"
    IN  IF state \notin {"NeedsInstall", "NeedsUpgrade", "Unchanged"}
        THEN ApplyResult(state, AErr("unexpected release state", 0), trace)
        ELSE IF in.outcome = "actionErr"
        THEN ApplyResult(state, AErr(name, 0), trace \o << Event(name, 0, TRUE) >>)
        ELSE IF in.outcome = "manifestErr"
        THEN ApplyResult(state, AErr("getting managed objects", 0),
                         trace \o << Event(name, 0, FALSE) >>)
        ELSE ApplyResult(state, NoErr, trace \o << Event(name, 0, FALSE) >>)

\* lines 51-137
Apply(in) ==
    IF in.early # "none"
    THEN ApplyResult("none", AErr(in.early, 0), <<>>)
    ELSE LET rs == getReleaseState(in)
             pf == preflightLoop(in, rs.state, 1)
         IN  IF rs.err # NoErr
             THEN ApplyResult(rs.state, rs.err, rs.trace)
             ELSE IF pf.err # NoErr
             THEN ApplyResult(rs.state, pf.err, rs.trace \o pf.trace)
             ELSE helmAction(in, rs.state, rs.trace \o pf.trace)

\* Preflight.Install of the CRD upgrade-safety preflight always returns nil
PreflightKinds ==
    {pf \in [crdUpgradeSafety : BOOLEAN, installErr : BOOLEAN, upgradeErr : BOOLEAN] :
        pf.crdUpgradeSafety => ~pf.installErr}

ApplyCall(early, get, status, dryRun, preflights, cfg, outcome) ==
    [op |-> "Apply", early |-> early, get |-> get, status |-> status, dryRun |-> dryRun,
     preflights |-> preflights, cfg |-> cfg, outcome |-> outcome]

InitApply ==
    \/ \E early \in {"RegistryV1ToHelmChart", "ActionClientFor", "bundle.Version"} :
            call = ApplyCall(early, "err", "deployed", "err", <<>>, "nil", "ok")
    \/ \E get \in {"err", "notFound"},
           preflights \in SeqsUpTo(PreflightKinds, MaxPreflights),
           cfg \in {"nil", "noCRDUpgradeSafety", "enabled", "disabled"},
           outcome \in {"ok", "actionErr", "manifestErr"} :
            call = ApplyCall("none", get, "deployed", "err", preflights, cfg, outcome)
    \/ \E status \in {"deployed", "failed", "superseded"},
           dryRun \in {"err", "same", "different"},
           preflights \in SeqsUpTo(PreflightKinds, MaxPreflights),
           cfg \in {"nil", "noCRDUpgradeSafety", "enabled", "disabled"},
           outcome \in {"ok", "actionErr", "manifestErr"} :
            call = ApplyCall("none", "found", status, dryRun, preflights, cfg, outcome)

(***************************************************************************)
(* contentmanager: the scheme built for an extension's managed objects.    *)
(* A scheme is the set of group/version/kinds it recognizes.  Objects are  *)
(* given by their group/version/kind; any of the three may be empty.       *)
(***************************************************************************)
GroupVersion(gvk) == [Group |-> gvk.Group, Version |-> gvk.Version]

WithKind(gv, kind) == GVK(gv.Group, gv.Version, kind)

NewScheme == {}

Recognizes(scheme, gvk) == gvk \in scheme

AddKnownTypeWithName(scheme, gvk) == scheme \cup {gvk}

\* metav1.AddToGroupVersion registers the watch event and the options kinds
\* under the group/version, and the unversioned kinds under the core "v1".
OptionsKinds ==
    {"WatchEvent", "ListOptions", "GetOptions", "DeleteOptions",
     "CreateOptions", "UpdateOptions", "PatchOptions"}

UnversionedKinds ==
    {"Status", "APIVersions", "APIGroupList", "APIGroup", "APIResourceList"}

MetaKinds(gv) ==
    {WithKind(gv, k) : k \in OptionsKinds}
    \cup {GVK("", "v1", k) : k \in UnversionedKinds}

AddToGroupVersion(scheme, gv) == scheme \cup MetaKinds(gv)

\* v1alpha1.AddToScheme: the operator-controller API types.
APIGroupVersion == [Group |-> "olm.operatorframework.io", Version |-> "v1alpha1"]

APITypes ==
    {WithKind(APIGroupVersion, "ClusterExtension"),
     WithKind(APIGroupVersion, "ClusterExtensionList")}

AddToScheme(scheme) == AddToGroupVersion(scheme \cup APITypes, APIGroupVersion)

ListKind(gvk) == WithKind(GroupVersion(gvk), gvk.Kind \o "List")

SchemeResult(scheme, err) == [op |-> "buildScheme", scheme |-> scheme, err |-> err]

NotDefined == "object Kind or Version is not defined"

\* lines 73-83: an object the scheme does not know yet is registered with
\* its list kind and the meta kinds of its group/version.
addObject(scheme, gvk) ==
    IF Recognizes(scheme, gvk)
    THEN scheme
    ELSE AddToGroupVersion(
            AddKnownTypeWithName(AddKnownTypeWithName(scheme, gvk), ListKind(gvk)),
            GroupVersion(gvk))

RECURSIVE schemeLoop_ChecksKindOnly(_, _, _)
schemeLoop_ChecksKindOnly(objs, k, scheme) ==
    IF k > Len(objs)
    THEN SchemeResult(scheme, Nil)
    ELSE IF objs[k].Kind = ""
    THEN SchemeResult(Nil, NotDefined)
    ELSE schemeLoop_ChecksKindOnly(objs, k + 1, addObject(scheme, objs[k]))

\* lines 65-84: the first object without a Kind or a Version ends the loop
\* with an error; every other object is added to the scheme.
RECURSIVE schemeLoop(_, _, _)
schemeLoop(objs, k, scheme) ==
    IF k > Len(objs)
    THEN SchemeResult(scheme, Nil)
    ELSE IF objs[k].Kind = "" \/ objs[k].Version = ""
    THEN SchemeResult(Nil, NotDefined)
    ELSE schemeLoop(objs, k + 1, addObject(scheme, objs[k]))

buildScheme(objs) == schemeLoop(objs, 1, AddToScheme(NewScheme))

\* Inputs of buildScheme: every combination of an empty or set group,
\* version and kind, and one of the operator-controller API types.
SchemeObjects ==
    {GVK(g, v, k) : g \in {"", "apps"}, v \in {"", "v1"}, k \in {"", "Pod", "Deployment"}}
    \cup {WithKind(APIGroupVersion, "ClusterExtension")}

InitBuildScheme ==
    \E objs \in SeqsUpTo(SchemeObjects, MaxSchemeObjects) :
        call = [op |-> "buildScheme", objs |-> objs]

(***************************************************************************)
(* contentmanager: the instance and its per-extension caches.  A cache is  *)
(* known by its position in caches, the order in which they were started;  *)
(* extensionCaches maps an extension's name to the cache (and the Cancel   *)
(* of the context it was started with) the instance holds for it.          *)
(***************************************************************************)
Extensions == {"ext-a", "ext-b"}

NoEntries == [n \in {} |-> 0]

New == [extensionCaches |-> NoEntries, caches |-> <<>>]

\* A started cache: the extension it belongs to, whether the context it was
\* started with is cancelled, and the caches of the same extension that were
\* running at the moment it was started.
CacheData(name, alongside) ==
    [name |-> name, cancelled |-> FALSE, alongside |-> alongside]

Cancel(caches, id) == [caches EXCEPT ![id].cancelled = TRUE]

RunningCaches(inst) == {id \in DOMAIN inst.caches : ~inst.caches[id].cancelled}

MErr(what, name) == [isNil |-> FALSE, what |-> what, name |-> name]

\* line 103: the error of buildScheme, returned as it is
SErr(err) == [isNil |-> FALSE, what |-> err]

\* What a call on the instance leaves behind: the instance, what the call
\* returned, the caches it cancelled and the number of watches it asked for.
ManagerResult(op, inst, ret, cancels, watches) ==
    [inst |-> inst,
     out |-> [op |-> op, ret |-> ret, cancels |-> cancels, watches |-> watches]]

\* The collaborators of ManageContent: which of them fails, if any, and at
\* which object for Watch.
Env(fail, at) == [fail |-> fail, at |-> at]

Envs(objs) ==
    {Env(f, 0) : f \in {"none", "rcm", "cache"}}
    \cup {Env("watch", k) : k \in DOMAIN objs}

\* lines 136-138
cancelExisting(inst, name) ==
    IF name \in DOMAIN inst.extensionCaches
    THEN [inst EXCEPT !.caches = Cancel(inst.caches, inst.extensionCaches[name])]
    ELSE inst

cancelled(inst, name) ==
    IF name \in DOMAIN inst.extensionCaches
    THEN <<inst.extensionCaches[name]>>
    ELSE <<>>

\* lines 140-145
startCache(inst, name) ==
    [extensionCaches |->
        [n \in DOMAIN inst.extensionCaches \cup {name} |->
            IF n = name THEN Len(inst.caches) + 1 ELSE inst.extensionCaches[n]],
     caches |-> Append(inst.caches,
                       CacheData(name, {id \in RunningCaches(inst) :
                                            inst.caches[id].name = name}))]

\* a ManageContent that cancels the extension's cache before it registers
\* the watches
manageContent_CancelsBeforeWatching(inst, name, objs, env, scheme) ==
    IF env.fail = "rcm"
    THEN ManagerResult("ManageContent", inst, MErr("getting rest.Config", name), <<>>, 0)
    ELSE IF scheme.err # Nil
    THEN ManagerResult("ManageContent", inst, SErr(scheme.err), <<>>, 0)
    ELSE IF env.fail = "cache"
    THEN ManagerResult("ManageContent", inst, MErr("creating cache", name), <<>>, 0)
    ELSE IF env.fail = "watch"
    THEN ManagerResult("ManageContent", cancelExisting(inst, name),
                       MErr("creating watch", name), cancelled(inst, name), env.at)
    ELSE ManagerResult("ManageContent", startCache(cancelExisting(inst, name), name),
                       NoError, cancelled(inst, name), Len(objs))

\* a ManageContent that replaces the extension's entry without cancelling
\* the cache it held
manageContent_KeepsReplacedCache(inst, name, objs, env, scheme) ==
    IF env.fail = "rcm"
    THEN ManagerResult("ManageContent", inst, MErr("getting rest.Config", name), <<>>, 0)
    ELSE IF scheme.err # Nil
    THEN ManagerResult("ManageContent", inst, SErr(scheme.err), <<>>, 0)
    ELSE IF env.fail = "cache"
    THEN ManagerResult("ManageContent", inst, MErr("creating cache", name), <<>>, 0)
    ELSE IF env.fail = "watch"
    THEN ManagerResult("ManageContent", inst, MErr("creating watch", name), <<>>, env.at)
    ELSE ManagerResult("ManageContent", startCache(inst, name), NoError, <<>>, Len(objs))

\* lines 89-148
manageContent(inst, name, objs, env, scheme) ==
    IF env.fail = "rcm"
    THEN ManagerResult("ManageContent", inst, MErr("getting rest.Config", name), <<>>, 0)
    ELSE IF scheme.err # Nil
    THEN ManagerResult("ManageContent", inst, SErr(scheme.err), <<>>, 0)
    ELSE IF env.fail = "cache"
    THEN ManagerResult("ManageContent", inst, MErr("creating cache", name), <<>>, 0)
    ELSE IF env.fail = "watch"
    THEN ManagerResult("ManageContent", inst, MErr("creating watch", name), <<>>, env.at)
    ELSE ManagerResult("ManageContent", startCache(cancelExisting(inst, name), name),
                       NoError, cancelled(inst, name), Len(objs))

ManageContent(inst, name, objs, env) ==
    manageContent(inst, name, objs, env, buildScheme(objs))

\* a RemoveManagedContent that deletes the entry and leaves its cache running
RemoveManagedContent_KeepsCacheRunning(inst, name) ==
    IF name \in DOMAIN inst.extensionCaches
    THEN ManagerResult("RemoveManagedContent",
            [inst EXCEPT !.extensionCaches =
                [n \in DOMAIN inst.extensionCaches \ {name} |-> inst.extensionCaches[n]]],
            NoError, <<>>, 0)
    ELSE ManagerResult("RemoveManagedContent", inst, NoError, <<>>, 0)

\* lines 150-157
RemoveManagedContent(inst, name) ==
    IF name \in DOMAIN inst.extensionCaches
    THEN ManagerResult("RemoveManagedContent",
            [extensionCaches |->
                [n \in DOMAIN inst.extensionCaches \ {name} |-> inst.extensionCaches[n]],
             caches |-> Cancel(inst.caches, inst.extensionCaches[name])],
            NoError, cancelled(inst, name), 0)
    ELSE ManagerResult("RemoveManagedContent", inst, NoError, <<>>, 0)

\* The managed objects a caller hands over: none, well-formed ones, and
\* one without a Kind.
ManagedObjects ==
    {<<>>,
     <<GVK("", "v1", "Pod")>>,
     <<GVK("", "v1", "Pod"), GVK("apps", "v1", "Deployment")>>,
     <<GVK("", "v1", "Pod"), GVK("apps", "v1", "")>>}

(***************************************************************************)
(* resolution: Resolver.Resolve picks the bundle to install.               *)
(*                                                                         *)
(* A bundle has a name, a package, a version (its major number), the       *)
(* channels it is in, whether it is deprecated, and the types of its       *)
(* properties.  The filters and the orders of catalogmetadata are taken as *)
(* their names say: a version range is the least version it admits, and    *)
(* the successors of the installed bundle are what SuccessorsPredicate     *)
(* answers, an error or the versions it admits.  The installed bundle is    *)
(* none ("nil"), one with a version that parses ("valid") or does not      *)
(* ("invalid"), or the error of the getter ("err").                        *)
(***************************************************************************)
Bundle(name, package, version, channels, deprecated, properties) ==
    [Name |-> name, Package |-> package, Version |-> version, Channels |-> channels,
     Deprecated |-> deprecated, Properties |-> properties]

NoBundle == [Name |-> Nil]

RErr(what) == [isNil |-> FALSE, what |-> what]

\* operator-registry's property types a bundle declares a dependency with
TypePackageRequired == "olm.package.required"
TypeGVKRequired == "olm.gvk.required"
TypeConstraint == "olm.constraint"

RECURSIVE dependencyLoop(_, _)
dependencyLoop(bundle, i) ==
    IF i > Len(bundle.Properties)
    THEN NoError
    ELSE IF bundle.Properties[i] \in {TypePackageRequired, TypeGVKRequired, TypeConstraint}
    THEN RErr("dependency not supported")
    ELSE dependencyLoop(bundle, i + 1)

\* lines 11-28
NoDependencyValidation(bundle) == dependencyLoop(bundle, 1)

\* A ValidationFunc: NoDependencyValidation, or one that rejects the bundles
\* it names.
Rejecting(names) == [func |-> "rejecting", names |-> names]

NoDependency == [func |-> "NoDependencyValidation"]

validate(v, bundle) ==
    IF v.func = "NoDependencyValidation"
    THEN NoDependencyValidation(bundle)
    ELSE IF bundle.Name \in v.names THEN RErr("rejected") ELSE NoError

\* the filters of catalogmetadata/filter
WithPackageName(packageName, b) == b.Package = packageName

InChannel(channelName, b) == channelName \in b.Channels

InMastermindsSemverRange(vr, b) == b.Version >= vr

\* the orders of catalogmetadata/sort: higher versions first, and bundles
\* that are not deprecated first
ByVersion(b1, b2) == b1.Version > b2.Version

ByDeprecated(b1, b2) == ~b1.Deprecated /\ b2.Deprecated

\* sort.SliceStable: elements come in the order of less, and elements that
\* less does not order keep the order they had
less(by, b1, b2) == IF by = "ByVersion" THEN ByVersion(b1, b2) ELSE ByDeprecated(b1, b2)

SliceStable(s, by) ==
    LET before(i) == {j \in DOMAIN s :
                        less(by, s[j], s[i]) \/ (j < i /\ ~less(by, s[i], s[j]))}
    IN  [n \in DOMAIN s |-> s[CHOOSE i \in DOMAIN s : Cardinality(before(i)) = n - 1]]

\* mmsemver.NewConstraint: the least version a range admits, or none for a
\* range that does not parse
Ranges == [vr \in {">=2"} |-> 2]

\* lines 85-110: the bundles every predicate admits
matches(in, b) ==
    /\ WithPackageName(in.ext.PackageName, b)
    /\ in.ext.Channel # "" => InChannel(in.ext.Channel, b)
    /\ in.ext.Version # "" => InMastermindsSemverRange(Ranges[in.ext.Version], b)
    /\ (in.ext.UpgradeConstraintPolicy # "Ignore" /\ in.installed # Nil) =>
            b.Version \in in.successors.versions

Filter(in) == SelectSeq(in.allBundles, LAMBDA b : matches(in, b))

ResolveResult(bundle, err, validated) ==
    [op |-> "Resolve", bundle |-> bundle, err |-> err, validated |-> validated]

\* lines 142-147: the validations from the k-th on
RECURSIVE validationLoop_FallsBack(_, _, _, _)
validationLoop_FallsBack(r, resultSet, k, validated) ==
    IF k > Len(r.Validations)
    THEN ResolveResult(resultSet[1], NoError, validated)
    ELSE IF validate(r.Validations[k], resultSet[1]) # NoError
    THEN IF Len(resultSet) > 1
         THEN validationLoop_FallsBack(r, Tail(resultSet), 1,
                    Append(validated, <<k, resultSet[1].Name>>))
         ELSE ResolveResult(NoBundle, RErr("validating resolved bundle"),
                            Append(validated, <<k, resultSet[1].Name>>))
    ELSE validationLoop_FallsBack(r, resultSet, k + 1,
                    Append(validated, <<k, resultSet[1].Name>>))

RECURSIVE validationLoop(_, _, _, _)
validationLoop(r, resultSet, k, validated) ==
    IF k > Len(r.Validations)
    THEN ResolveResult(resultSet[1], NoError, validated)
    ELSE IF validate(r.Validations[k], resultSet[1]) # NoError
    THEN ResolveResult(NoBundle, RErr("validating resolved bundle"),
                       Append(validated, <<k, resultSet[1].Name>>))
    ELSE validationLoop(r, resultSet, k + 1, Append(validated, <<k, resultSet[1].Name>>))

\* an order that breaks the ties of the versions by deprecation
rank_ByVersionFirst(resultSet) == SliceStable(SliceStable(resultSet, "ByDeprecated"), "ByVersion")

\* lines 133-138
rank(resultSet) == SliceStable(SliceStable(resultSet, "ByVersion"), "ByDeprecated")

\* lines 110-149
choose(r, in, resultSet) ==
    IF in.installed = "invalid"
    THEN ResolveResult(NoBundle, RErr("invalid installed version"), <<>>)
    ELSE IF Len(resultSet) = 0
    THEN ResolveResult(NoBundle, RErr("no package found"), <<>>)
    ELSE validationLoop(r, rank(resultSet), 1, <<>>)

\* lines 66-150
Resolve(r, in) ==
    IF in.ext.isNil
    THEN ResolveResult(NoBundle, RErr("nil ClusterExtension"), <<>>)
    ELSE IF in.bundlesErr
    THEN ResolveResult(NoBundle, RErr("fetching bundles"), <<>>)
    ELSE IF in.installed = "err"
    THEN ResolveResult(NoBundle, RErr("fetching installed bundle"), <<>>)
    ELSE IF in.ext.Version \notin DOMAIN Ranges \cup {""}
    THEN ResolveResult(NoBundle, RErr("invalid version range"), <<>>)
    ELSE IF in.ext.UpgradeConstraintPolicy # "Ignore" /\ in.installed # Nil
            /\ in.successors.err
    THEN ResolveResult(NoBundle, RErr("successors"), <<>>)
    ELSE choose(r, in, Filter(in))

Ext(packageName, channel, version, policy) ==
    [isNil |-> FALSE, PackageName |-> packageName, Channel |-> channel,
     Version |-> version, UpgradeConstraintPolicy |-> policy]

NilExt == [isNil |-> TRUE]

Successors(err, versions) == [err |-> err, versions |-> versions]

Resolver(validations) == [Validations |-> validations]

ResolveCall(r, ext, allBundles, bundlesErr, installed, successors) ==
    [op |-> "Resolve", r |-> r, ext |-> ext, allBundles |-> allBundles,
     bundlesErr |-> bundlesErr, installed |-> installed, successors |-> successors]

\* the catalog: bundles of package foo in versions 1 to 3, deprecated or
\* not, in one channel or the other, one of them with a dependency, and a
\* bundle of another package
Catalog ==
    {Bundle("foo.v1", "foo", 1, {"stable"}, FALSE, <<"olm.package">>),
     Bundle("foo.v2", "foo", 2, {"stable"}, FALSE, <<"olm.package", "olm.gvk.required">>),
     Bundle("foo.v2-old", "foo", 2, {"stable", "beta"}, TRUE, <<"olm.package">>),
     Bundle("foo.v3", "foo", 3, {"stable"}, TRUE, <<"olm.package">>),
     Bundle("foo.v3-beta", "foo", 3, {"beta"}, FALSE, <<"olm.package">>),
     Bundle("bar.v3", "bar", 3, {"stable"}, FALSE, <<"olm.package">>)}

Resolvers ==
    {Resolver(<<>>),
     Resolver(<<NoDependency>>),
     Resolver(<<Rejecting({"foo.v1", "foo.v3"}), NoDependency>>)}

InitResolve ==
    \/ call = ResolveCall(Resolver(<<>>), NilExt, <<>>, FALSE, Nil, Successors(FALSE, {}))
    \/ \E bundlesErr \in BOOLEAN, installed \in {Nil, "err"} :
            /\ bundlesErr \/ installed = "err"
            /\ call = ResolveCall(Resolver(<<>>), Ext("foo", "", "", "Enforce"), <<>>,
                                  bundlesErr, installed, Successors(FALSE, {}))
    \/ \E r \in Resolvers,
           allBundles \in SeqsUpTo(Catalog, MaxBundles),
           channel \in {"", "stable"},
           version \in {"", ">=2", "invalid"},
           policy \in {"Enforce", "Ignore"},
           installed \in {Nil, "valid", "invalid"},
           successors \in {Successors(TRUE, {}), Successors(FALSE, {2}),
                           Successors(FALSE, {2, 3})} :
            /\ (policy = "Ignore" \/ installed = Nil) => successors = Successors(FALSE, {2})
            /\ call = ResolveCall(r, Ext("foo", channel, version, policy), allBundles,
                                  FALSE, installed, successors)

(***************************************************************************)
(* The specification.                                                      *)
(***************************************************************************)
Init ==
    /\ p = NewPreflight
    /\ cm = New
    /\ result = NoResult
    /\ \/ InitCrossVersionValidate
       \/ InitCrossVersionSchemas
       \/ InitValidate
       \/ InitUpgrade
       \/ InitInstall
       \/ InitApply
       \/ InitBuildScheme

CrossVersionValidate ==
    /\ result = NoResult
    /\ call.op = "crossVersionValidate"
    /\ result' = crossVersionValidate(p.crossVersionValidator, call.lib, call.order, call.crd)
    /\ UNCHANGED <<p, call, cm>>

ValidatorValidate ==
    /\ result = NoResult
    /\ call.op = "Validate"
    /\ result' = Validate(p.validator, call.lib, call.order, call.old, call.new)
    /\ UNCHANGED <<p, call, cm>>

PreflightUpgrade ==
    /\ result = NoResult
    /\ call.op = "Upgrade"
    /\ result' = Upgrade(p, call)
    /\ UNCHANGED <<p, call, cm>>

PreflightInstall ==
    /\ result = NoResult
    /\ call.op = "Install"
    /\ result' = Install(p, call)
    /\ UNCHANGED <<p, call, cm>>

HelmApply ==
    /\ result = NoResult
    /\ call.op = "Apply"
    /\ result' = Apply(call)
    /\ UNCHANGED <<p, call, cm>>

BuildScheme ==
    /\ result = NoResult
    /\ call.op = "buildScheme"
    /\ result' = buildScheme(call.objs)
    /\ UNCHANGED <<p, call, cm>>

Next ==
    \/ CrossVersionValidate
    \/ ValidatorValidate
    \/ PreflightUpgrade
    \/ PreflightInstall
    \/ HelmApply
    \/ BuildScheme

Spec == Init /\ [][Next]_vars

(***************************************************************************)
(* Concurrent Upgrade calls on one Preflight: any caller that has not      *)
(* returned takes its next step.                                           *)
(***************************************************************************)
InitConcurrent ==
    /\ p = NewPreflight
    /\ cm = New
    /\ InitConcurrentUpgrade

UpgradeStep(i) ==
    /\ call.op = "ConcurrentUpgrade"
    /\ result.callers[i].ret = Running
    /\ p' = upgradeStep(p, call.calls[i], result.callers[i]).pf
    /\ result' = [result EXCEPT !.callers[i] =
                        upgradeStep(p, call.calls[i], result.callers[i]).caller]
    /\ UNCHANGED <<call, cm>>

NextConcurrent == \E i \in Callers : UpgradeStep(i)

SpecConcurrent == InitConcurrent /\ [][NextConcurrent]_vars

(***************************************************************************)
(* The content manager: calls of ManageContent and RemoveManagedContent    *)
(* on one instance, one after the other, for any extension.  call and      *)
(* result hold the last call and what it returned.                         *)
(***************************************************************************)
InitContent ==
    /\ p = NewPreflight
    /\ cm = New
    /\ call = [op |-> "New"]
    /\ result = NoResult

InstanceManageContent ==
    \E name \in Extensions, objs \in ManagedObjects :
        \E env \in Envs(objs) :
            /\ Len(cm.caches) < MaxCaches
            /\ call' = [op |-> "ManageContent", ce |-> name, objs |-> objs, env |-> env]
            /\ cm' = ManageContent(cm, name, objs, env).inst
            /\ result' = ManageContent(cm, name, objs, env).out
            /\ UNCHANGED p

InstanceRemoveManagedContent ==
    \E name \in Extensions :
        /\ call' = [op |-> "RemoveManagedContent", ce |-> name]
        /\ cm' = RemoveManagedContent(cm, name).inst
        /\ result' = RemoveManagedContent(cm, name).out
        /\ UNCHANGED p

NextContent ==
    \/ InstanceManageContent
    \/ InstanceRemoveManagedContent

SpecContent == InitContent /\ [][NextContent]_vars

(***************************************************************************)
(* The resolver: one call of Resolve per behaviour.                        *)
(***************************************************************************)
InitResolver ==
    /\ p = NewPreflight
    /\ cm = New
    /\ result = NoResult
    /\ InitResolve

ResolverResolve ==
    /\ result = NoResult
    /\ call.op = "Resolve"
    /\ result' = Resolve(call.r, call)
    /\ UNCHANGED <<p, call, cm>>

NextResolver == ResolverResolve

SpecResolver == InitResolver /\ [][NextResolver]_vars

(***************************************************************************)
(* Claims about crossVersionValidator.Validate.                            *)
(***************************************************************************)
CVDone == result.op = "crossVersionValidate"

Versions == call.crd.Versions

UniqueNames == \A i, j \in DOMAIN Versions : Versions[i].Name = Versions[j].Name => i = j

\* the diff the library computes for versionA as old and versionB as new
DiffOf(va, vb) ==
    CalculateFlatSchemaDiff(call.lib, FlattenSchema(call.lib, va.Schema),
                            FlattenSchema(call.lib, vb.Schema))

NoRuleHandles(diff) ==
    \A k \in DOMAIN p.crossVersionValidator.changeValidations :
        ~validation(call.lib, p.crossVersionValidator.changeValidations[k], diff).ok

ErrsOf(a, b, f) ==
    {k \in DOMAIN result.errs :
        result.errs[k].a = a /\ result.errs[k].b = b /\ result.errs[k].field = f}

EvalsOf(a, b, f) ==
    {k \in DOMAIN result.evals :
        result.evals[k].a = a /\ result.evals[k].b = b /\ result.evals[k].field = f}

\* C1: deny by default.  For every field diff of every compared pair of
\* versions for which no rule of the list returns ok, the result holds the
\* unknown-change error naming the two versions and the field, and Validate
\* returns a non-nil error that wraps it.
C1_DenyByDefault ==
    CVDone =>
        \A i, j \in DOMAIN Versions :
            LET va == Versions[i]
                vb == Versions[j]
                d == DiffOf(va, vb)
            IN  (va.Name # vb.Name /\ d.err = Nil) =>
                    \A f \in DOMAIN d.diffs :
                        NoRuleHandles(d.diffs[f]) =>
                            /\ result.ret # NoError
                            /\ Err("unknown", va.Name, vb.Name, f, Nil)
                                    \in Range(result.ret.joined)

\* a call in which a rule declined a field with an error, no rule handled the
\* field, and the unknown-change error was returned
C1_Witness ==
    /\ CVDone
    /\ \E k \in DOMAIN result.evals :
            LET ev == result.evals[k]
            IN  /\ ev.res = DeclinesWithErr
                /\ \A m \in EvalsOf(ev.a, ev.b, ev.field) : ~result.evals[m].res.ok
                /\ result.ret # NoError
                /\ Err("unknown", ev.a, ev.b, ev.field, Nil) \in Range(result.ret.joined)

NoErrorProduced ==
    /\ \A i, j \in DOMAIN Versions :
            LET d == DiffOf(Versions[i], Versions[j])
            IN  Versions[i].Name # Versions[j].Name =>
                    /\ d.err = Nil
                    /\ \A f \in DOMAIN d.diffs : ~NoRuleHandles(d.diffs[f])
    /\ \A k \in DOMAIN result.evals : result.evals[k].res.err = Nil

\* C5: Validate does not short-circuit.  Every pair of versions with
\* different names is compared, a pair whose diff fails yields its error, every
\* field diff of every other pair is put to the rules, whatever failed before;
\* and Validate returns nil exactly when no pair and no field produced an error.
C5_NoShortCircuit ==
    CVDone =>
        /\ \A i, j \in DOMAIN Versions :
                LET va == Versions[i]
                    vb == Versions[j]
                    d == DiffOf(va, vb)
                IN  va.Name # vb.Name =>
                        /\ \E k \in DOMAIN result.compared :
                                result.compared[k].a = va.Name /\ result.compared[k].b = vb.Name
                        /\ d.err # Nil =>
                                Err("diff", va.Name, vb.Name, Nil, Nil) \in Range(result.errs)
                        /\ d.err = Nil =>
                                \A f \in DOMAIN d.diffs : EvalsOf(va.Name, vb.Name, f) # {}
        /\ Len(result.compared) =
                Cardinality({ij \in (DOMAIN Versions) \X (DOMAIN Versions) :
                                Versions[ij[1]].Name # Versions[ij[2]].Name})
        /\ (result.ret = NoError) <=> NoErrorProduced

\* a call whose first compared pair failed to diff and in which a field of a
\* later pair was still put to the rules and reported
C5_Witness ==
    /\ CVDone
    /\ Len(result.errs) >= 3
    /\ result.errs[1].kind = "diff"
    /\ \E k, m \in DOMAIN result.errs :
            /\ 1 < k /\ k < m
            /\ result.errs[k].kind # "diff"
            /\ result.errs[m].kind # "diff"
            /\ <<result.errs[k].a, result.errs[k].b, result.errs[k].field>>
                    # <<result.errs[m].a, result.errs[m].b, result.errs[m].field>>

RuleIndex(rule) == CHOOSE k \in DOMAIN ChangeValidationList : ChangeValidationList[k] = rule

\* C6: first handled wins.  The cross-version validator's rules are, in order,
\* Enum, Required, Maximum, MaximumItems, MaximumLength, MaximumProperties,
\* Minimum, MinimumItems, MinimumLength, MinimumProperties, Default; for each
\* field diff they are evaluated in that order from the first one, each only if
\* every earlier one returned ok = false, so none is evaluated after one that
\* returned ok = true; and a field with a rule that returned ok = true gets no
\* unknown-change error.
C6_FirstHandledWins ==
    /\ p.crossVersionValidator.changeValidations =
            << "EnumChangeValidation", "RequiredFieldChangeValidation",
               "MaximumChangeValidation", "MaximumItemsChangeValidation",
               "MaximumLengthChangeValidation", "MaximumPropertiesChangeValidation",
               "MinimumChangeValidation", "MinimumItemsChangeValidation",
               "MinimumLengthChangeValidation", "MinimumPropertiesChangeValidation",
               "DefaultValueChangeValidation" >>
    /\ CVDone =>
        /\ \A k \in DOMAIN result.evals :
                LET ev == result.evals[k]
                    first == k = 1 \/ result.evals[k - 1].res.ok
                                   \/ RuleIndex(result.evals[k - 1].rule) = Len(ChangeValidationList)
                IN  /\ first => RuleIndex(ev.rule) = 1
                    /\ ~first =>
                            /\ RuleIndex(ev.rule) = RuleIndex(result.evals[k - 1].rule) + 1
                            /\ <<ev.a, ev.b, ev.field>> =
                                    <<result.evals[k - 1].a, result.evals[k - 1].b,
                                      result.evals[k - 1].field>>
                    /\ (~ev.res.ok /\ RuleIndex(ev.rule) < Len(ChangeValidationList)) =>
                            /\ k < Len(result.evals)
                            /\ RuleIndex(result.evals[k + 1].rule) = RuleIndex(ev.rule) + 1
                    /\ ev.res.ok =>
                            Err("unknown", ev.a, ev.b, ev.field, Nil) \notin Range(result.errs)

\* a call in which a rule before the last one rejected a field that a later
\* rule would have judged too: the later rule was not evaluated
C6_Witness ==
    /\ CVDone
    /\ \E k \in DOMAIN result.evals :
            LET ev == result.evals[k]
            IN  /\ ev.res = Rejects
                /\ \E r \in RuleNames :
                        /\ RuleIndex(r) > RuleIndex(ev.rule)
                        /\ call.lib.kind = "oracle"
                        /\ <<ev.field, r>> \in DOMAIN call.lib.outcomes
                        /\ \A m \in EvalsOf(ev.a, ev.b, ev.field) : result.evals[m].rule # r

ThreeShapes == {Declines, Approves, Rejects}

SchemaOf(name) == (CHOOSE v \in Range(Versions) : v.Name = name).Schema

\* C8: no version is compared against itself, and for a definition with n
\* uniquely named versions exactly the n*(n-1) ordered pairs (A, B) of different
\* versions are compared, once each, with A's schema as old and B's as new.
C8_OrderedPairs ==
    CVDone =>
        /\ \A k \in DOMAIN result.compared : result.compared[k].a # result.compared[k].b
        /\ UniqueNames =>
            /\ Len(result.compared) = Len(Versions) * (Len(Versions) - 1)
            /\ {<<result.compared[k].a, result.compared[k].b>> : k \in DOMAIN result.compared}
                    = DistinctPairs(VersionNames(call.crd))
            /\ \A k \in DOMAIN result.compared :
                    /\ result.compared[k].old = SchemaOf(result.compared[k].a)
                    /\ result.compared[k].new = SchemaOf(result.compared[k].b)

\* a call on three uniquely named versions that compared six ordered pairs
C8_Witness ==
    /\ CVDone /\ UniqueNames
    /\ Len(Versions) = 3
    /\ Len(result.compared) = 6

FlatOf(version) == FlattenSchema(call.lib, version.Schema).flat

\* C9: optional to required is flagged.  With the change rules of the design,
\* for every two versions v1 and v2 of a definition and every field that both
\* declare, that v1 requires and v2 leaves optional, and that has no default in
\* v1, the result holds an error for version v2 compared to version v1 on that
\* field, whatever the comparison of v1 to v2 yields.
C9_OptionalToRequired ==
    (CVDone /\ call.lib.kind = "kappcus") =>
        \A i, j \in DOMAIN Versions :
            Versions[i].Name # Versions[j].Name =>
                \A f \in DOMAIN FlatOf(Versions[i]) \cap DOMAIN FlatOf(Versions[j]) :
                    (/\ FlatOf(Versions[i])[f].RequiredInParent
                     /\ ~FlatOf(Versions[j])[f].RequiredInParent
                     /\ FlatOf(Versions[i])[f].Default = None) =>
                        ErrsOf(Versions[j].Name, Versions[i].Name, f) # {}

\* the definition v1{required: [x]}, v2{}: v2 compared to v1 is reported on x
\* and v1 compared to v2 is judged safe
C9_Witness ==
    /\ CVDone
    /\ call.lib.kind = "kappcus"
    /\ Versions = << Version("v1", Object({"x"}, [x |-> Integer])),
                     Version("v2", Object({}, [x |-> Integer])) >>
    /\ ErrsOf("v2", "v1", "x") # {}
    /\ ErrsOf("v1", "v2", "x") = {}
    /\ result.ret # NoError

\* C10: a no-op is safe.  Validate(old, new) returns nil when new is identical
\* to old, and the cross-version validator returns nil for every definition
\* whose declared versions all have the same schema, a definition with one
\* version or none included.
C10_NoOpIsSafe ==
    /\ (result.op = "Validate" /\ call.new = call.old) => result.ret = NoError
    /\ (CVDone /\ \A i, j \in DOMAIN Versions : Versions[i].Schema = Versions[j].Schema) =>
            result.ret = NoError

\* a definition with two versions of one schema: both directions were
\* compared and nil was returned
C10_Witness ==
    /\ CVDone
    /\ Len(Versions) = 2
    /\ Versions[1].Name # Versions[2].Name
    /\ Versions[1].Schema = Versions[2].Schema
    /\ Len(result.compared) = 2
    /\ result.ret = NoError

(***************************************************************************)
(* Claims about the Validator that NewPreflight configures.                *)
(***************************************************************************)
ValidateDone == result.op = "Validate"

\* C14: scope immutability.  Validate(old, new) fails with the scope error
\* whenever old.Scope differs from new.Scope, and when the scope is all that
\* differs between old and new, the scope error is the one error it returns.
C14_ScopeImmutable ==
    (ValidateDone /\ call.old.Scope # call.new.Scope) =>
        /\ result.ret # NoError
        /\ VErr("NoScopeChange", Nil, Nil, Nil) \in Range(result.ret.joined)
        /\ [call.old EXCEPT !.Scope = call.new.Scope] = call.new =>
                result.ret.joined = << VErr("NoScopeChange", Nil, Nil, Nil) >>

\* widgets active with scope Namespaced and proposed, otherwise unchanged, with
\* scope Cluster: one error, the scope error
C14_Witness ==
    /\ ValidateDone
    /\ call.old = ActiveCRD("widgets")
    /\ call.new = CRD("widgets", "Cluster", ActiveCRD("widgets").Versions, {"v1"})
    /\ result.ret.joined = << VErr("NoScopeChange", Nil, Nil, Nil) >>

\* C15: stored-version retention.  Validate(old, new) fails with the
\* stored-version error whenever a name of old.StoredVersions is the name of
\* no version of new, whatever the schemas of the versions changed to.
C15_StoredVersionRetained ==
    (ValidateDone /\ \E name \in call.old.StoredVersions : name \notin VersionNames(call.new)) =>
        /\ result.ret # NoError
        /\ VErr("NoStoredVersionRemoved", Nil, Nil, Nil) \in Range(result.ret.joined)

\* the stored version v1 is dropped while the version that stays, v2, only
\* gets a safe change (x no longer required): the stored-version error is the
\* one error
C15_Witness ==
    /\ ValidateDone
    /\ call.old.StoredVersions = {"v1"}
    /\ VersionNames(call.old) = {"v1", "v2"}
    /\ VersionNames(call.new) = {"v2"}
    /\ call.old.Versions[2].Schema # call.new.Versions[1].Schema
    /\ result.ret.joined = << VErr("NoStoredVersionRemoved", Nil, Nil, Nil) >>

\* Validate was called on two definitions of one version v1 each, and the
\* schemas differ in field f alone, there in attribute attr alone
OnlyChange(f, attr) ==
    /\ ValidateDone
    /\ call.old.Scope = call.new.Scope
    /\ Len(call.old.Versions) = 1 /\ Len(call.new.Versions) = 1
    /\ LET o == FlattenSchema(call.lib, call.old.Versions[1].Schema).flat
           n == FlattenSchema(call.lib, call.new.Versions[1].Schema).flat
       IN  /\ DOMAIN o = DOMAIN n
           /\ f \in DOMAIN o
           /\ \A g \in DOMAIN o : g # f => o[g] = n[g]
           /\ o[f][attr] # n[f][attr]
           /\ [o[f] EXCEPT ![attr] = n[f][attr]] = n[f]

OldAttr(f, attr) == FlattenSchema(call.lib, call.old.Versions[1].Schema).flat[f][attr]

NewAttr(f, attr) == FlattenSchema(call.lib, call.new.Versions[1].Schema).flat[f][attr]

Rejected(f) == Err("rule", "v1", "v1", f, "unsafe")

\* C16: enum rule.  For a field whose only change is the enum, the enum rule
\* is the rule that decides it: the change is accepted, and Validate returns
\* nil, if old had an enum and every value of it is in the new enum; it is
\* rejected, the rejection being the one error of Validate, if some old value
\* is missing from the new enum or old had no enum.
C16_EnumRule ==
    ValidateDone =>
    \A f \in Range(call.order) :
        OnlyChange(f, "Enum") =>
            LET old == OldAttr(f, "Enum")
                new == NewAttr(f, "Enum")
            IN  /\ (old # {} /\ old \subseteq new) => result.ret = NoError
                /\ (old = {} \/ ~(old \subseteq new)) =>
                        /\ result.ret # NoError
                        /\ result.ret.joined = << Rejected(f) >>

\* x with enum [A, B] proposed with enum [A, B, C]: accepted
C16_Witness ==
    /\ OnlyChange("x", "Enum")
    /\ OldAttr("x", "Enum") = {"A", "B"}
    /\ NewAttr("x", "Enum") = {"A", "B", "C"}
    /\ result.ret = NoError

UpperBounds == {"Maximum", "MaxItems", "MaxLength", "MaxProperties"}

\* C17: upper-bound rules.  For a field whose only change is its maximum,
\* maximum of items, maximum length or maximum of properties, the rule of that
\* bound is the rule that decides it: the change is accepted, and Validate
\* returns nil, exactly when the new bound is absent or at least the old bound
\* (a field without the bound taken as unbounded); otherwise it is rejected,
\* the rejection being the one error of Validate.
C17_UpperBoundRule ==
    ValidateDone =>
        \A f \in Range(call.order), attr \in UpperBounds :
            OnlyChange(f, attr) =>
                LET old == OldAttr(f, attr)
                    new == NewAttr(f, attr)
                    relaxed == new = None \/ (old # None /\ new >= old)
                IN  /\ relaxed <=> result.ret = NoError
                    /\ ~relaxed => result.ret.joined = << Rejected(f) >>

\* x with maximum 10 proposed with maximum 5: rejected
C17_Witness ==
    /\ OnlyChange("x", "Maximum")
    /\ OldAttr("x", "Maximum") = 10
    /\ NewAttr("x", "Maximum") = 5
    /\ result.ret.joined = << Rejected("x") >>

(***************************************************************************)
(* Claims about Preflight.Upgrade.                                         *)
(***************************************************************************)
UpgradeDone == result.op = "Upgrade"

IsCRD(k) == call.objects[k].gvk = CRDKind

ReadSucceeds(k) ==
    /\ IsCRD(k)
    /\ call.objects[k].convert = "ok"
    /\ call.cluster[call.objects[k].crd.Name] = "found"

\* Upgrade gets to the k-th object: no definition before it failed to convert
\* or to be read
Reached(k) == \A j \in 1..(k - 1) : IsCRD(j) => ReadSucceeds(j)

Returned(err) == "joined" \in DOMAIN result.ret /\ err \in Range(result.ret.joined)

\* C3: nothing is dropped.  Whenever Upgrade returns, every validation
\* failure it recorded for a definition of the release is an entry of the
\* combined error it returns, also when a later definition fails to convert or
\* to be read.
C3_NothingDropped ==
    UpgradeDone =>
        \A k \in DOMAIN result.validateErrors : Returned(result.validateErrors[k])

ValidatorFails(k) ==
    Validate(p.validator, call.lib, call.order, ActiveCRD(call.objects[k].crd.Name),
             call.objects[k].crd).ret # NoError

CrossVersionFails(k) ==
    crossVersionValidate(p.crossVersionValidator, call.lib, call.order,
                         call.objects[k].crd).ret # NoError

\* the definitions whose active definition was read, in the release's order
ReadCRDs ==
    SelectSeq([k \in DOMAIN call.objects |-> k], LAMBDA k : Reached(k) /\ ReadSucceeds(k))

\* C4: both checks for every definition read.  For every definition of the
\* release whose active definition is read, Upgrade runs the Validator on
\* (active, proposed) and the cross-version validator on (proposed), whether or
\* not the Validator failed; and when the active definition of every
\* definition of the release is read, Upgrade returns nil exactly when no check
\* of no definition fails, and otherwise a combined error with one entry per
\* failed check of each definition and nothing else.
C4_BothChecksPerCRD ==
    (UpgradeDone /\ call.rel # "nil" /\ ~call.parseErr) =>
        /\ result.validated =
                [n \in DOMAIN ReadCRDs |->
                    << ActiveCRD(call.objects[ReadCRDs[n]].crd.Name),
                       call.objects[ReadCRDs[n]].crd >>]
        /\ result.crossValidated =
                [n \in DOMAIN ReadCRDs |-> call.objects[ReadCRDs[n]].crd]
        /\ (\A k \in DOMAIN call.objects : IsCRD(k) => ReadSucceeds(k)) =>
            LET crds == {k \in DOMAIN call.objects : IsCRD(k)}
                failedV == {k \in crds : ValidatorFails(k)}
                failedC == {k \in crds : CrossVersionFails(k)}
            IN  /\ (result.ret = NoError) <=> (failedV = {} /\ failedC = {})
                /\ result.ret # NoError =>
                    /\ Len(result.ret.joined) = Cardinality(failedV) + Cardinality(failedC)
                    /\ \A k \in failedV :
                            \E e \in Range(result.ret.joined) :
                                e.kind = "validating upgrade"
                                    /\ e.name = call.objects[k].crd.Name
                    /\ \A k \in failedC :
                            \E e \in Range(result.ret.joined) :
                                e.kind = "cross version validation"
                                    /\ e.name = call.objects[k].crd.Name

\* a release of two definitions, both read: the first failed both checks, the
\* second one of them, and the combined error holds the three entries
C4_Witness ==
    /\ UpgradeDone
    /\ Len(call.objects) = 2
    /\ ReadSucceeds(1) /\ ReadSucceeds(2)
    /\ ValidatorFails(1) /\ CrossVersionFails(1)
    /\ call.objects[2].crd.Name # call.objects[1].crd.Name
    /\ Returned(result.validateErrors[1])
    /\ Len(result.ret.joined) = 3
    /\ result.ret.joined[2].kind = "cross version validation"

\* the first definition of the release whose read fails, Upgrade getting to it
FailedRead(k) ==
    /\ Reached(k)
    /\ IsCRD(k)
    /\ call.objects[k].convert = "ok"
    /\ call.cluster[call.objects[k].crd.Name] # "found"

Occurrences(seq, x) == Cardinality({n \in DOMAIN seq : seq[n] = x})

ValidationFailureKinds == {"validating upgrade", "cross version validation"}

\* C11: a failed read is a hard error.  When the read of the active definition
\* of a CRD of the release fails, Upgrade returns the error of that read, which
\* names the CRD and is no validation failure nor a combination of them; the
\* CRD was read once; and no definition after it was read or validated.
C11_FailedReadIsHardError ==
    (UpgradeDone /\ call.rel # "nil" /\ ~call.parseErr) =>
        \A k \in DOMAIN call.objects :
            FailedRead(k) =>
                /\ result.ret = UErr("getting existing resource", call.objects[k].crd.Name,
                                     NoError)
                /\ result.ret.kind \notin ValidationFailureKinds
                /\ result.ret # NoError
                /\ Occurrences(result.reads, call.objects[k].crd.Name) = 1
                /\ result.reads =
                        [n \in DOMAIN ReadCRDs |-> call.objects[ReadCRDs[n]].crd.Name]
                            \o << call.objects[k].crd.Name >>
                /\ Len(result.validated) = Len(ReadCRDs)
                /\ Len(result.crossValidated) = Len(ReadCRDs)
                /\ \A n \in DOMAIN ReadCRDs : ReadCRDs[n] < k

\* a release of two definitions: the first is not found and was read once,
\* the second, whose active definition the cluster holds, was neither read
\* nor validated
C11_Witness ==
    /\ UpgradeDone
    /\ Len(call.objects) = 2
    /\ FailedRead(1)
    /\ IsCRD(2)
    /\ call.objects[2].convert = "ok"
    /\ call.cluster[call.objects[2].crd.Name] = "found"
    /\ result.reads = << call.objects[1].crd.Name >>
    /\ result.validated = <<>>
    /\ result.ret.kind = "getting existing resource"

\* the definitions of the release Upgrade gets to and can decode, in order
Attempted ==
    SelectSeq([k \in DOMAIN call.objects |-> k],
              LAMBDA k : Reached(k) /\ IsCRD(k) /\ call.objects[k].convert = "ok")

\* C22: only definitions are read.  Of a release that parses, Upgrade reads
\* the active definition, and validates, for objects whose group/version/kind
\* is exactly apiextensions.k8s.io/v1 CustomResourceDefinition and for no
\* other object; a release without such an object returns nil without a read,
\* and so does a nil release.
C22_OnlyCRDsAreRead ==
    UpgradeDone =>
        /\ call.rel = "nil" => (result.ret = NoError /\ result.reads = <<>>)
        /\ (call.rel # "nil" /\ ~call.parseErr) =>
            /\ result.reads =
                    [n \in DOMAIN Attempted |-> call.objects[Attempted[n]].crd.Name]
            /\ \A n \in DOMAIN result.validated :
                    \E k \in DOMAIN call.objects :
                        IsCRD(k) /\ result.validated[n][2] = call.objects[k].crd
            /\ \A n \in DOMAIN result.crossValidated :
                    \E k \in DOMAIN call.objects :
                        IsCRD(k) /\ result.crossValidated[n] = call.objects[k].crd
            /\ (\A k \in DOMAIN call.objects : ~IsCRD(k)) =>
                    /\ result.ret = NoError
                    /\ result.reads = <<>>
                    /\ result.validated = <<>>
                    /\ result.crossValidated = <<>>

\* a release of a v1beta1 definition and a v1 definition: one read, of the
\* second
C22_Witness ==
    /\ UpgradeDone
    /\ Len(call.objects) = 2
    /\ call.objects[1].gvk = GVK("apiextensions.k8s.io", "v1beta1", "CustomResourceDefinition")
    /\ ReadSucceeds(2)
    /\ result.reads = << call.objects[2].crd.Name >>
    /\ Len(result.validated) = 1

\* C18: Install is a no-op.  For every release, none and one that does not
\* parse included, Install returns nil, reads no definition from the cluster
\* and runs neither the Validator nor the cross-version validator.
C18_InstallIsNoOp ==
    result.op = "Install" =>
        /\ result.ret = NoError
        /\ result.reads = <<>>
        /\ result.validated = <<>>
        /\ result.crossValidated = <<>>

\* Install on a release whose first definition Upgrade rejects on both checks
C18_Witness ==
    /\ result.op = "Install"
    /\ call.rel = "release" /\ ~call.parseErr
    /\ call.objects # <<>>
    /\ Upgrade(p, call).ret # NoError
    /\ Len(Upgrade(p, call).validateErrors) >= 2
    /\ result.ret = NoError

(***************************************************************************)
(* Claims about Helm.Apply.                                                *)
(***************************************************************************)
ApplyDone == result.op = "Apply"

MutatingActions == {"Install", "Upgrade", "Reconcile"}

\* the check a preflight runs in the detected state
CheckOf(state) == IF state = "NeedsInstall" THEN "preflight.Install" ELSE "preflight.Upgrade"

CheckFails(preflight, state) ==
    IF state = "NeedsInstall" THEN preflight.installErr ELSE preflight.upgradeErr

\* C2: preflight precedes mutation.  Helm's Install or Upgrade is invoked
\* only after every preflight that is not skipped has run its check for the
\* detected state (Install for NeedsInstall, Upgrade for NeedsUpgrade) and the
\* check has returned nil; and when a preflight check returns an error, Apply
\* returns that error and invokes no Install, Upgrade or Reconcile.
C2_PreflightPrecedesMutation ==
    ApplyDone =>
        /\ \A t \in DOMAIN result.trace :
                result.trace[t].ev \in {"Install", "Upgrade"} =>
                    /\ result.trace[t].ev =
                            (IF result.state = "NeedsInstall" THEN "Install" ELSE "Upgrade")
                    /\ \A k \in DOMAIN call.preflights :
                            ~SkipsPreflight(call.cfg, call.preflights[k]) =>
                                /\ ~CheckFails(call.preflights[k], result.state)
                                /\ \E u \in 1..(t - 1) :
                                        result.trace[u] = Event(CheckOf(result.state), k, FALSE)
        /\ \A u \in DOMAIN result.trace :
                (result.trace[u].k > 0 /\ result.trace[u].failed) =>
                    /\ result.err = AErr(result.trace[u].ev, result.trace[u].k)
                    /\ \A t \in DOMAIN result.trace : result.trace[t].ev \notin MutatingActions

\* a call that found an upgrade needed, ran a preflight's Upgrade check that
\* passed and then one that failed, and returned without a Helm action
C2_Witness ==
    /\ ApplyDone
    /\ result.state = "NeedsUpgrade"
    /\ \E u, v \in DOMAIN result.trace :
            /\ u < v
            /\ result.trace[u].ev = "preflight.Upgrade" /\ ~result.trace[u].failed
            /\ result.trace[v].ev = "preflight.Upgrade" /\ result.trace[v].failed
    /\ result.err.src = "preflight.Upgrade"
    /\ \A t \in DOMAIN result.trace : result.trace[t].ev \notin MutatingActions

Invoked(k) == \E t \in DOMAIN result.trace : result.trace[t].k = k

OtherPreflights == {k \in DOMAIN call.preflights : ~call.preflights[k].crdUpgradeSafety}

\* C12: opt-out.  When the extension's CRDUpgradeSafety configuration has
\* Disabled = true, Apply invokes neither Install nor Upgrade of a CRD
\* upgrade-safety preflight, whatever the release state; the other preflights
\* and the Helm action run as they do without it: each other preflight runs
\* its check for a release that needs an install or an upgrade unless an
\* earlier one of them failed, and the Helm action runs unless one of them
\* failed.
C12_OptOut ==
    (ApplyDone /\ call.cfg = "disabled") =>
        /\ \A k \in DOMAIN call.preflights :
                call.preflights[k].crdUpgradeSafety => ~Invoked(k)
        /\ \A k \in OtherPreflights :
                Invoked(k) <=>
                    /\ result.state \in {"NeedsInstall", "NeedsUpgrade"}
                    /\ \A j \in OtherPreflights :
                            j < k => ~CheckFails(call.preflights[j], result.state)
        /\ (\E t \in DOMAIN result.trace : result.trace[t].ev \in MutatingActions) <=>
                \/ result.state = "Unchanged"
                \/ /\ result.state \in {"NeedsInstall", "NeedsUpgrade"}
                   /\ \A j \in OtherPreflights : ~CheckFails(call.preflights[j], result.state)

\* an upgrade with the check disabled: the CRD upgrade-safety preflight, whose
\* Upgrade would have failed, was not invoked, the other preflight was, and
\* Helm's Upgrade ran
C12_Witness ==
    /\ ApplyDone
    /\ call.cfg = "disabled"
    /\ result.state = "NeedsUpgrade"
    /\ Len(call.preflights) = 2
    /\ call.preflights[1].crdUpgradeSafety /\ call.preflights[1].upgradeErr
    /\ ~call.preflights[2].crdUpgradeSafety
    /\ ~Invoked(1)
    /\ Invoked(2)
    /\ \E t \in DOMAIN result.trace : result.trace[t].ev = "Upgrade"
    /\ result.err = NoErr

(***************************************************************************)
(* Claims about concurrent Upgrade calls.                                  *)
(***************************************************************************)
\* C13: Upgrade calls are independent.  No step of Upgrade, the cross-version
\* validation in it included, changes a field of the Preflight, and under
\* every interleaving of the callers' steps each caller returns what Upgrade
\* returns when it runs alone on the same release and the same cluster.
C13_UpgradeCallsIndependent ==
    call.op = "ConcurrentUpgrade" =>
        /\ p = NewPreflight
        /\ \A i \in Callers :
                result.callers[i].ret # Running =>
                    result.callers[i].ret = Upgrade(NewPreflight, call.calls[i])

\* two callers have both returned validation failures after the other had
\* validated a definition in between their steps
C13_Witness ==
    /\ call.op = "ConcurrentUpgrade"
    /\ \A i \in Callers :
            /\ result.callers[i].ret # Running
            /\ Len(result.callers[i].ret.validated) >= 1
            /\ result.callers[i].ret.validateErrors # <<>>
            /\ result.callers[i].ret.ret = Join(result.callers[i].ret.validateErrors)

(***************************************************************************)
(* Claims about buildScheme.                                               *)
(***************************************************************************)
BuildDone == result.op = "buildScheme"

Provided == Range(call.objs)

SomeUndefined == \E o \in Provided : o.Kind = "" \/ o.Version = ""

BuildFailsIffUndefined == (result.err # Nil) <=> SomeUndefined

RecognizesProvided == \A o \in Provided : Recognizes(result.scheme, o)

Actions == SelectSeq(result.trace, LAMBDA e : e.ev \in MutatingActions)

\* the Helm action that matches what the cluster holds
ExpectedAction ==
    IF call.get = "notFound"
    THEN "Install"
    ELSE IF call.dryRun = "different" \/ call.status \in {"failed", "superseded"}
    THEN "Upgrade"
    ELSE "Reconcile"

\* C25: one Helm action per successful call.  A call of Apply that returns
\* no error has performed exactly one of Install, Upgrade and Reconcile:
\* Install when the release is not found, Upgrade when the dry-run manifest
\* differs from the current one or the current release is failed or
\* superseded, Reconcile otherwise; no preflight check is invoked for an
\* unchanged release; and getReleaseState gives the Error state only with an
\* error, so that Apply never returns the error of an unexpected state.
C25_OneActionPerState ==
    (ApplyDone /\ call.early = "none") =>
        /\ result.err = NoErr =>
                /\ Len(Actions) = 1
                /\ Actions[1] = Event(ExpectedAction, 0, FALSE)
        /\ result.state = "Unchanged" =>
                \A t \in DOMAIN result.trace : result.trace[t].k = 0
        /\ getReleaseState(call).state = "Error" => getReleaseState(call).err # NoErr
        /\ result.err.src # "unexpected release state"

\* a call that found the manifest unchanged and the release failed, ran a
\* preflight's Upgrade check, upgraded and returned no error
C25_Witness ==
    /\ ApplyDone
    /\ call.dryRun = "same" /\ call.status = "failed" /\ call.get = "found"
    /\ result.err = NoErr
    /\ \E t \in DOMAIN result.trace : result.trace[t].ev = "preflight.Upgrade"
    /\ Actions = << Event("Upgrade", 0, FALSE) >>

(***************************************************************************)
(* Claims about the content manager.                                       *)
(***************************************************************************)
CachesOf(inst, name) == {id \in DOMAIN inst.caches : inst.caches[id].name = name}

EntriesOf(inst, names) ==
    [n \in DOMAIN inst.extensionCaches \cap names |-> inst.extensionCaches[n]]

\* The instance after a call of RemoveManagedContent for name, against the
\* instance before it.
RemoveEffect(before, after, name) ==
    /\ \A id \in CachesOf(before, name) : after.caches[id].cancelled
    /\ name \notin DOMAIN after.extensionCaches
    /\ EntriesOf(after, Extensions \ {name}) = EntriesOf(before, Extensions \ {name})
    /\ DOMAIN after.caches = DOMAIN before.caches
    /\ \A id \in DOMAIN before.caches \ CachesOf(before, name) :
            after.caches[id] = before.caches[id]

\* A further call for the same name returns nil and changes nothing.
RemoveAgain(after, name) ==
    /\ RemoveManagedContent(after, name).inst = after
    /\ RemoveManagedContent(after, name).out.ret = NoError

\* C19: every call of RemoveManagedContent returns nil and leaves every
\* cache started for the extension's name cancelled, no entry for that name
\* in extensionCaches, and the entries and caches of every other extension
\* as they were; a second call for the same name changes nothing.
C19_RemoveManagedContent ==
    [][InstanceRemoveManagedContent =>
            /\ result'.ret = NoError
            /\ RemoveEffect(cm, cm', call'.ce)
            /\ RemoveAgain(cm', call'.ce)]_vars

\* RemoveManagedContent has cancelled the running cache of one extension
\* while another extension keeps its entry and its running cache.
C19_Witness ==
    /\ result.op = "RemoveManagedContent"
    /\ result.cancels # <<>>
    /\ \A id \in Range(result.cancels) : cm.caches[id].cancelled
    /\ \E n \in DOMAIN cm.extensionCaches :
            /\ n # call.ce
            /\ cm.extensionCaches[n] \in RunningCaches(cm)

\* the caches of an extension that are started and not cancelled
RunningOf(inst, name) == CachesOf(inst, name) \cap RunningCaches(inst)

\* C23: one running cache per extension.  After any sequence of ManageContent
\* and RemoveManagedContent calls on one instance, the caches of an extension
\* that are started and not cancelled are the one extensionCaches holds for
\* its name, or none when it holds none; and no cache was started while
\* another cache of its extension was still running.
C23_OneRunningCachePerExtension ==
    /\ \A name \in Extensions :
            RunningOf(cm, name) =
                IF name \in DOMAIN cm.extensionCaches
                THEN {cm.extensionCaches[name]}
                ELSE {}
    /\ \A id \in DOMAIN cm.caches : cm.caches[id].alongside = {}

\* ManageContent has replaced the running cache of an extension: the replaced
\* cache is cancelled and the new one is the extension's entry.
C23_Witness ==
    /\ result.op = "ManageContent"
    /\ result.ret = NoError
    /\ result.cancels # <<>>
    /\ \A id \in Range(result.cancels) :
            cm.caches[id].name = call.ce /\ cm.caches[id].cancelled
    /\ cm.extensionCaches[call.ce] = Len(cm.caches)
    /\ Len(cm.caches) \in RunningCaches(cm)

\* C24: a failed ManageContent changes nothing.  When ManageContent returns
\* an error, whichever of the rest-config mapping, the scheme, the cache
\* creation and the watches failed, extensionCaches is as before, no cache
\* has been started and none has been cancelled.
C24_FailedManageContent ==
    [][(InstanceManageContent /\ result'.ret # NoError) =>
            /\ cm'.extensionCaches = cm.extensionCaches
            /\ cm'.caches = cm.caches
            /\ result'.cancels = <<>>]_vars

\* ManageContent has failed at a watch for an extension whose cache is
\* running: the cache is still the extension's entry and still running.
C24_Witness ==
    /\ result.op = "ManageContent"
    /\ result.ret # NoError
    /\ call.env.fail = "watch"
    /\ result.watches = 2
    /\ call.ce \in DOMAIN cm.extensionCaches
    /\ cm.extensionCaches[call.ce] \in RunningCaches(cm)

(***************************************************************************)
(* Claims about Resolver.Resolve.                                          *)
(***************************************************************************)
ResolveDone == result.op = "Resolve"

\* the call gets to the filter and past the installed bundle's version
Proceeds ==
    /\ ~call.ext.isNil
    /\ ~call.bundlesErr
    /\ call.installed \in {Nil, "valid"}
    /\ call.ext.Version # "invalid"
    /\ (call.ext.UpgradeConstraintPolicy # "Ignore" /\ call.installed # Nil) =>
            ~call.successors.err

Matching == Range(Filter(call))

Highest(bundles) == {b \in bundles : \A c \in bundles : c.Version <= b.Version}

NotDeprecated(bundles) == {b \in bundles : ~b.Deprecated}

NoMatchIsError ==
    Matching = {} => (result.err = RErr("no package found") /\ result.bundle = NoBundle)

MatchIsResolved ==
    (Matching # {} /\ call.r.Validations = <<>>) => result.err = NoError

\* C21 as stated: Resolve returns an error when no bundle matches;
\* otherwise it returns a matching bundle of the highest version, one that is
\* not deprecated when a bundle of that version is not deprecated.
C21_HighestVersion ==
    (ResolveDone /\ Proceeds) =>
        /\ NoMatchIsError
        /\ MatchIsResolved
        /\ (Matching # {} /\ result.err = NoError) =>
                /\ result.bundle \in Highest(Matching)
                /\ NotDeprecated(Highest(Matching)) # {} => ~result.bundle.Deprecated

\* C21 as the code has it: Resolve returns an error when no bundle matches;
\* otherwise it returns a matching bundle that is not deprecated when one
\* matches, the one of the highest version among those, and the matching
\* bundle of the highest version when all of them are deprecated.
C21_NotDeprecatedFirst ==
    (ResolveDone /\ Proceeds) =>
        /\ NoMatchIsError
        /\ MatchIsResolved
        /\ (Matching # {} /\ result.err = NoError) =>
                IF NotDeprecated(Matching) # {}
                THEN result.bundle \in Highest(NotDeprecated(Matching))
                ELSE result.bundle \in Highest(Matching)

\* Resolve has chosen between a deprecated bundle and one of a lower version
\* that is not deprecated, and returned the latter.
C21_Witness ==
    /\ ResolveDone
    /\ Proceeds
    /\ result.err = NoError
    /\ ~result.bundle.Deprecated
    /\ \E b \in Matching : b.Deprecated /\ b.Version > result.bundle.Version

Accepts(r, bundle) ==
    \A k \in DOMAIN r.Validations : validate(r.Validations[k], bundle) = NoError

\* the validations that run on a bundle: all up to the first that rejects it
Applied(r, bundle) ==
    SelectSeq([k \in DOMAIN r.Validations |-> <<k, bundle.Name>>],
              LAMBDA e : \A j \in 1..(e[1] - 1) : validate(r.Validations[j], bundle) = NoError)

\* C26: every validation accepts the bundle returned.  Resolve applies the
\* validations in order to the first bundle of the ranking, up to the first
\* that rejects it, and to no other bundle; it returns that bundle when all
\* accept it, and an error and no bundle when one rejects it, also when
\* another matching bundle would have been accepted.
C26_NoFallBack ==
    (ResolveDone /\ Proceeds /\ Matching # {}) =>
        LET top == rank(Filter(call))[1]
        IN  /\ result.validated = Applied(call.r, top)
            /\ Accepts(call.r, top) => (result.err = NoError /\ result.bundle = top)
            /\ ~Accepts(call.r, top) =>
                    /\ result.err = RErr("validating resolved bundle")
                    /\ result.bundle = NoBundle

\* NoDependencyValidation has rejected the first bundle of the ranking for
\* its olm.gvk.required property, after another validation accepted it, and
\* Resolve returned an error although every validation accepts another
\* matching bundle.
C26_Witness ==
    /\ ResolveDone
    /\ Proceeds
    /\ Len(result.validated) = 2
    /\ call.r.Validations[2] = NoDependency
    /\ result.err = RErr("validating resolved bundle")
    /\ result.bundle = NoBundle
    /\ \E b \in Matching : Accepts(call.r, b)

====
